---- MODULE Spec2Model ----
(***************************************************************************)
(* Model of the collaborative board: the API server in its file-based,     *)
(* Redis and in-memory variants (item store, Task Zone grid allocator,     *)
(* free-form collision avoider, creation, focus and task-zone endpoints,   *)
(* SSE broadcast) and the viewers (src/components/Canvas.tsx, src/App.tsx: *)
(* viewport, centerOnItem animation, wheel/pan/reset, focus handling,      *)
(* SSE listeners of BoardApp and MeetMainStage).                           *)
(***************************************************************************)
EXTENDS Integers, Sequences, FiniteSets, TLC

VARIABLES
    store,      \* server: the persisted board-item collection (data file)
    nextId,     \* server: source of fresh item ids
    last,       \* server: outcome of the most recent creation request
    history,    \* server: one record per successful creation, in order
    viewport,   \* viewer: {x, y, zoom}, rationals
    anims,      \* viewer: animation loops with a frame scheduled, each with
                \* its closure and the time elapsed since its startTime
    nextAnim,   \* viewer: source of animation-loop identities
    lastFrame,  \* viewer: the loop and elapsed time of the latest frame write
    lastCall,   \* viewer: the latest centerOnItem / focus call and its effect
    selectedItemId, \* viewer: selected item id (0 = null)
    drag,       \* viewer: isDragging and lastPanPoint
    gestures,   \* viewer: number of wheel / drag gestures so far
    items,      \* viewer: the local item list (React state of BoardApp)
    backend,    \* server: which server variant runs (file, redis, memory)
    sseClients, \* server: the connected SSE clients, each with the events
                \* written to its stream and not yet dispatched
    timers,     \* viewer: pending setTimeout callbacks of focus handling
    highlighted, \* viewer: sub-elements carrying the focus-highlighted class
    meet,       \* MeetMainStage: selected id, item list, centerOnItem calls
    seen,       \* viewer: the item list in the closure of BoardApp's
                \* registered SSE listeners (handleFocusRequest's `items`)
    pending,    \* server: creation requests between their load and save
    cache       \* in-memory server: Date.now() and lastLoadTime, in ms

svars == <<store, nextId, last, history, pending, cache>>
cvars == <<viewport, anims, nextAnim, lastFrame, lastCall,
           selectedItemId, drag, gestures, items>>
\* SSE streams, and the viewer state only focus events touch
bvars == <<backend, sseClients>>
hvars == <<timers, highlighted, meet, seen>>
vars == <<store, nextId, last, history, pending, cache, viewport, anims, nextAnim,
          lastFrame, lastCall, selectedItemId, drag, gestures, items,
          backend, sseClients, timers, highlighted, meet, seen>>

----------------------------------------------------------------------------
(* Bounds of the model *)

MaxItems == 2          \* creations in the general server specification
MaxGridItems == 13     \* creations in the grid-fill specification
MaxVaried == 2         \* grid-fill creations that are not lab results
MaxAnims == 2          \* animation loops in flight at once
MaxCalls == 2          \* centerOnItem / focus calls per behaviour
MaxGestures == 1       \* wheel, drag and reset gestures per behaviour
MaxInFlight == 1       \* undispatched events per SSE stream
MaxBusItems == 1       \* creations in the event-delivery specification

----------------------------------------------------------------------------
(* Server: Task Management Zone allocator (api/server.js) *)

TASK_ZONE == [x |-> 4200, y |-> 0, width |-> 2000, height |-> 2100]

padding == 60
rowHeight == 490
colWidth == 560
topOffset == 60

\* height: 'auto' of an enhanced todo (a non-numeric height)
AUTO == -1

maxCols == TASK_ZONE.width \div colWidth
maxRows == TASK_ZONE.height \div rowHeight

IsApiItem(item) == item.type \in {"agent", "todo", "lab-result"}

InTaskZone(item) ==
    /\ item.x >= TASK_ZONE.x
    /\ item.x < TASK_ZONE.x + TASK_ZONE.width
    /\ item.y >= TASK_ZONE.y
    /\ item.y < TASK_ZONE.y + TASK_ZONE.height

\* mutant: every item inside the zone is filtered in, whatever its type
taskZoneItems_anyType(existingItems) ==
    SelectSeq(existingItems, LAMBDA item : InTaskZone(item))

taskZoneItems(existingItems) ==
    SelectSeq(existingItems, LAMBDA item : InTaskZone(item) /\ IsApiItem(item))

\* mutant: the column pitch taken as column width plus padding
CellCol_pitch(item) == (item.x - TASK_ZONE.x) \div (colWidth + padding)

CellCol(item) == (item.x - TASK_ZONE.x) \div colWidth

\* mutant: the row taken without the 60 px offset of the first row
CellRow_noOffset(item) == (item.y - TASK_ZONE.y) \div rowHeight

CellRow(item) == (item.y - TASK_ZONE.y - topOffset) \div rowHeight

\* grid[row][col] after the "mark occupied positions" loop
grid(existingItems) ==
    LET tz == taskZoneItems(existingItems)
    IN [row \in 0..(maxRows - 1) |->
          [col \in 0..(maxCols - 1) |->
              \E i \in 1..Len(tz) : CellRow(tz[i]) = row /\ CellCol(tz[i]) = col]]

FreeCells(existingItems) ==
    {c \in (0..(maxRows - 1)) \X (0..(maxCols - 1)) :
        ~grid(existingItems)[c[1]][c[2]]}

GridFull(existingItems) == FreeCells(existingItems) = {}

\* mutant: the scan runs column by column
FirstFreeCell_colMajor(existingItems) ==
    CHOOSE c \in FreeCells(existingItems) :
        \A d \in FreeCells(existingItems) :
            c[2] < d[2] \/ (c[2] = d[2] /\ c[1] <= d[1])

\* first free cell of the row-major scan (rows outer, columns inner)
FirstFreeCell(existingItems) ==
    CHOOSE c \in FreeCells(existingItems) :
        \A d \in FreeCells(existingItems) :
            c[1] < d[1] \/ (c[1] = d[1] /\ c[2] <= d[2])

\* mutant: the zone origin is left out of x
CellPosition_noOrigin(row, col) ==
    [x |-> col * colWidth + padding,
     y |-> TASK_ZONE.y + row * rowHeight + topOffset]

CellPosition(row, col) ==
    [x |-> TASK_ZONE.x + col * colWidth + padding,
     y |-> TASK_ZONE.y + row * rowHeight + topOffset]

\* mutant: the stack pitch is the row height without the padding
OverflowPosition_noPadding(existingItems) ==
    [x |-> TASK_ZONE.x + padding,
     y |-> TASK_ZONE.y + topOffset
             + Len(taskZoneItems(existingItems)) * rowHeight]

OverflowPosition(existingItems) ==
    [x |-> TASK_ZONE.x + padding,
     y |-> TASK_ZONE.y + topOffset
             + Len(taskZoneItems(existingItems)) * (rowHeight + padding)]

findTaskZonePosition(newItem, existingItems) ==
    IF ~GridFull(existingItems)
    THEN LET c == FirstFreeCell(existingItems) IN CellPosition(c[1], c[2])
    ELSE OverflowPosition(existingItems)

----------------------------------------------------------------------------
(* Server: legacy free-form collision avoider *)

\* a comparison with a non-numeric operand (y + 'auto') is false in JS
checkCollision(item1, item2) ==
    LET noCollision ==
          \/ item1.x + item1.width <= item2.x
          \/ item2.x + item2.width <= item1.x
          \/ (item1.height # AUTO /\ item1.y + item1.height <= item2.y)
          \/ (item2.height # AUTO /\ item2.y + item2.height <= item1.y)
    IN ~noCollision

fnPadding == 20
maxAttempts == 50
tooFarDown == 8000

\* Math.random() * 8000 + 100 and Math.random() * 7000 + 100: sample draws
RandomXs == {4300}
RandomYs == {150}

RECURSIVE MaxBottomFrom(_, _, _)
MaxBottomFrom(existingItems, i, acc) ==
    IF i > Len(existingItems) THEN acc
    ELSE LET it == existingItems[i]
             bottom == it.y + it.height
         IN MaxBottomFrom(existingItems, i + 1,
               IF it.height # AUTO /\ bottom > acc THEN bottom ELSE acc)

maxBottom(existingItems) == MaxBottomFrom(existingItems, 1, 0)

Collides(newItem, existingItems, t) ==
    \E i \in 1..Len(existingItems) :
        checkCollision([x |-> t[1], y |-> t[2], width |-> newItem.width,
                        height |-> newItem.height], existingItems[i])

\* a run of the while loop is the candidate position at the head of a
\* round, the number of random re-seeds so far and the round of the first
\* one; a colliding round (`attempts` rounds came before it) moves the
\* candidate below the lowest bottom, or re-seeds it when that is too far
\* down
NextTests(existingItems, r, attempts) ==
    LET testY == maxBottom(existingItems) + fnPadding
    IN IF testY > tooFarDown
       THEN {[pos |-> <<x, y>>, reseeds |-> r.reseeds + 1,
              first |-> IF r.reseeds = 0 THEN attempts + 1 ELSE r.first] :
                x \in RandomXs, y \in RandomYs}
       ELSE {[r EXCEPT !.pos = <<r.pos[1], testY>>]}

\* how a run ended: the position returned, the collision-check rounds run,
\* the re-seeds, and whether the return was the one inside the loop
Outcome(r, rounds, free) ==
    [pos |-> r.pos, rounds |-> rounds, reseeds |-> r.reseeds,
     first |-> r.first, free |-> free]

\* mutant: the loop condition lets one more round run
RECURSIVE RunsFrom_offByOne(_, _, _, _)
RunsFrom_offByOne(newItem, existingItems, runs, attempts) ==
    IF attempts > maxAttempts
    THEN {Outcome(r, attempts, FALSE) : r \in runs}
    ELSE LET free == {r \in runs : ~Collides(newItem, existingItems, r.pos)}
             hit == runs \ free
             moved == UNION {NextTests(existingItems, r, attempts) : r \in hit}
         IN {Outcome(r, attempts + 1, TRUE) : r \in free} \cup
            (IF hit = {} THEN {}
             ELSE RunsFrom_offByOne(newItem, existingItems, moved,
                                    attempts + 1))

\* the outcomes the while loop can have, given the runs possible at the
\* head of round `attempts`
RECURSIVE RunsFrom(_, _, _, _)
RunsFrom(newItem, existingItems, runs, attempts) ==
    IF attempts >= maxAttempts
    THEN {Outcome(r, attempts, FALSE) : r \in runs}
    ELSE LET free == {r \in runs : ~Collides(newItem, existingItems, r.pos)}
             hit == runs \ free
             moved == UNION {NextTests(existingItems, r, attempts) : r \in hit}
         IN {Outcome(r, attempts + 1, TRUE) : r \in free} \cup
            (IF hit = {} THEN {}
             ELSE RunsFrom(newItem, existingItems, moved, attempts + 1))

\* findNonOverlappingPosition with what the loop did on the way
findNonOverlappingRuns(newItem, existingItems) ==
    LET seeds == IF newItem.x = 0 \/ newItem.y = 0
                 THEN RandomXs \X RandomYs
                 ELSE {<<newItem.x, newItem.y>>}
    IN RunsFrom(newItem, existingItems,
                {[pos |-> t, reseeds |-> 0, first |-> 0] : t \in seeds}, 0)

\* the positions findNonOverlappingPosition can return
findNonOverlappingPosition(newItem, existingItems) ==
    {o.pos : o \in findNonOverlappingRuns(newItem, existingItems)}

----------------------------------------------------------------------------
(* Server: footprints computed by the creation endpoints *)

Min(a, b) == IF a <= b THEN a ELSE b
Max(a, b) == IF a >= b THEN a ELSE b
CeilDiv(a, b) == (a + b - 1) \div b

calculateTodoHeight(nTodos, hasDescription) ==
    LET baseHeight == 80
        itemHeight == 35
        descriptionHeight == IF hasDescription THEN 20 ELSE 0
        contentHeight == baseHeight + nTodos * itemHeight + descriptionHeight + 20
    IN Min(Max(contentHeight, 200), 600)

\* content.length / (520 / 12), rounded up
calculateHeight(contentLength) ==
    LET estimatedLines == CeilDiv(contentLength * 12, 520)
        contentHeight == Max(estimatedLines * 20, 100)
    IN Min(80 + contentHeight, 800)

componentDefaultWidth(componentType) ==
    CASE componentType \in {"PatientContext", "EncounterTimeline",
                            "AdverseEventAnalytics"} -> 1600
      [] componentType \in {"LabTable", "LabChart", "DifferentialDiagnosis"} -> 520
      [] OTHER -> 600

componentDefaultHeight(componentType) ==
    CASE componentType = "PatientContext" -> 300
      [] componentType = "EncounterTimeline" -> 400
      [] componentType = "AdverseEventAnalytics" -> 500
      [] OTHER -> 400

legacyDefaultWidth(type) ==
    IF type = "text" THEN 200 ELSE IF type = "ehr" THEN 550 ELSE 150

legacyDefaultHeight(type) ==
    IF type = "text" THEN 100 ELSE IF type = "ehr" THEN 450 ELSE 150

----------------------------------------------------------------------------
(* Server: requests.  A request body carries x and/or y, or neither; the   *)
(* body is a function from the supplied coordinate names to their values.  *)

NoBody == [k \in {} |-> 0]
XY(px, py) == [k \in {"x", "y"} |-> IF k = "x" THEN px ELSE py]
OnlyX(px) == [k \in {"x"} |-> px]

\* request bodies of the general specification: auto, manual inside the
\* zone (in column 0, reaching into column 1), manual with x = 0, x alone
Bodies == {NoBody, XY(4700, 60), XY(0, 60), OnlyX(4700)}

Has(body, k) == k \in DOMAIN body
\* req.body.x !== undefined && req.body.y !== undefined
BothDefined(body) == Has(body, "x") /\ Has(body, "y")
\* JS truthiness of a numeric field: present and not 0
Truthy(body, k) == Has(body, k) /\ body[k] # 0

TodoCounts == {15}
ContentLengths == {2000}
EnhancedSizes == {<<700, AUTO>>}
ComponentTypes == {"LabTable"}
LegacyTypes == {"todo"}

NoItem == [id |-> 0]

\* the default collection of loadBoardItems
ehrItem == [id |-> 1, type |-> "ehr", x |-> 3200, y |-> 3200,
            width |-> 550, height |-> 450]
\* no free-form allocation ran
NoRun == [rounds |-> 0]

\* let lastLoadTime = null
NoTime == -1
\* the process has just started and loaded nothing
NoLoad == [now |-> 0, lastLoadTime |-> NoTime]

loadBoardItems == store

\* what a request did: the response, and for the properties whether the
\* save succeeded and which events the handler broadcast
Response(endpoint, body, status, by, item, existing) ==
    [endpoint |-> endpoint, body |-> body, status |-> status, by |-> by,
     item |-> item, existing |-> existing,
     saved |-> TRUE, events |-> <<>>, removedCount |-> 0, ack |-> NoItem,
     run |-> NoRun]

\* broadcastSSE: one write of the event to every connected client
broadcastSSE(events) ==
    sseClients' = [c \in DOMAIN sseClients |-> sseClients[c] \o events]

\* validation failure: 400, nothing loaded, saved or broadcast
Reject(endpoint, body) ==
    /\ last' = Response(endpoint, body, 400, "none", NoItem, store)
    /\ UNCHANGED <<store, nextId, history, sseClients>>

\* the tail of a creation handler: items.push, saveBoardItems, broadcast of
\* the new-item event (every endpoint but board-items), 201.
\* File server: saveBoardItems throws on failure, the handler's catch
\* answers 500 and nothing is persisted or broadcast.
\* Redis server: saveBoardItems returns false on failure, the handler goes
\* on to broadcast and to answer 201.
Finish(endpoint, body, by, newItem, existing, saveOk, run) ==
    LET events == IF endpoint = "board-items" THEN <<>>
                  ELSE <<[event |-> "new-item", item |-> newItem]>>
    IN IF saveOk \/ backend = "redis"
       THEN /\ store' = IF saveOk THEN Append(existing, newItem) ELSE store
            /\ last' = [Response(endpoint, body, 201, by, newItem, existing)
                          EXCEPT !.saved = saveOk, !.events = events,
                                 !.run = run]
            /\ history' = Append(history, [id |-> newItem.id, by |-> by,
                                           endpoint |-> endpoint])
            /\ broadcastSSE(events)
       ELSE /\ last' = [Response(endpoint, body, 500, by, NoItem, existing)
                          EXCEPT !.saved = FALSE]
            /\ UNCHANGED <<store, history, sseClients>>

\* a creation handler served without another request in between: the id
\* it generated is used up when an item was answered
PersistRun(endpoint, body, by, newItem, existing, saveOk, run) ==
    /\ Finish(endpoint, body, by, newItem, existing, saveOk, run)
    /\ nextId' = IF saveOk \/ backend = "redis" THEN nextId + 1 ELSE nextId

Persist(endpoint, body, by, newItem, existing, saveOk) ==
    PersistRun(endpoint, body, by, newItem, existing, saveOk, NoRun)

\* the "Determine position" block shared by todos, agents, lab-results and
\* enhanced-todo: manual when both coordinates are given, else Task Zone
ZonePlacement(body, tempItem, existingItems) ==
    IF BothDefined(body)
    THEN [x |-> body["x"], y |-> body["y"], by |-> "manual"]
    ELSE LET p == findTaskZonePosition(tempItem, existingItems)
         IN [x |-> p.x, y |-> p.y,
             by |-> IF GridFull(existingItems) THEN "overflow" ELSE "grid"]

PostTodos(body, valid, nTodos, hasDescription, saveOk) ==
    IF ~valid THEN Reject("todos", body)
    ELSE LET dynamicHeight == calculateTodoHeight(nTodos, hasDescription)
             existingItems == loadBoardItems
             pos == ZonePlacement(body,
                       [type |-> "todo", width |-> 420, height |-> dynamicHeight],
                       existingItems)
             newItem == [id |-> nextId, type |-> "todo", x |-> pos.x, y |-> pos.y,
                         width |-> 420, height |-> dynamicHeight]
         IN Persist("todos", body, pos.by, newItem, existingItems, saveOk)

\* POST /api/todos is an async handler: other requests are served while it
\* awaits loadBoardItems and saveBoardItems.  A request in `pending` has
\* loaded the collection and built its item; `loaded` and `saved` are the
\* positions of its load and its save among the loads and saves served
Clock == Cardinality(pending) + Cardinality({p \in pending : p.saved # 0})

\* up to the resolution of `await loadBoardItems()`, and the synchronous
\* code after it: the position is computed from the collection loaded
LoadTodos(body, nTodos, hasDescription) ==
    LET dynamicHeight == calculateTodoHeight(nTodos, hasDescription)
        existingItems == loadBoardItems
        pos == ZonePlacement(body,
                  [type |-> "todo", width |-> 420, height |-> dynamicHeight],
                  existingItems)
        newItem == [id |-> nextId, type |-> "todo", x |-> pos.x, y |-> pos.y,
                    width |-> 420, height |-> dynamicHeight]
    IN /\ pending' = pending \cup
             {[item |-> newItem, body |-> body, by |-> pos.by,
               existing |-> existingItems, loaded |-> Clock + 1,
               saved |-> 0, status |-> 0, written |-> FALSE]}
       /\ nextId' = nextId + 1
       /\ UNCHANGED <<store, last, history, sseClients>>

\* mutant: the save appends to the collection as it is when the save runs
SaveTodos_merge(p, saveOk) ==
    /\ p \in pending
    /\ p.saved = 0
    /\ Finish("todos", p.body, p.by, p.item, store, saveOk, NoRun)
    /\ pending' = (pending \ {p}) \cup
          {[p EXCEPT !.saved = Clock + 1, !.written = saveOk,
                     !.status = IF saveOk \/ backend = "redis" THEN 201
                                ELSE 500]}
    /\ UNCHANGED nextId

\* items.push(newItem), the write of `await saveBoardItems(items)`, the
\* broadcast and the response: the collection written is the one loaded
\* plus the new item
SaveTodos(p, saveOk) ==
    /\ p \in pending
    /\ p.saved = 0
    /\ Finish("todos", p.body, p.by, p.item, p.existing, saveOk, NoRun)
    /\ pending' = (pending \ {p}) \cup
          {[p EXCEPT !.saved = Clock + 1, !.written = saveOk,
                     !.status = IF saveOk \/ backend = "redis" THEN 201
                                ELSE 500]}
    /\ UNCHANGED nextId

PostAgents(body, valid, contentLength, saveOk) ==
    IF ~valid THEN Reject("agents", body)
    ELSE LET dynamicHeight == calculateHeight(contentLength)
             existingItems == loadBoardItems
             pos == ZonePlacement(body,
                       [type |-> "agent", width |-> 520, height |-> dynamicHeight],
                       existingItems)
             newItem == [id |-> nextId, type |-> "agent", x |-> pos.x, y |-> pos.y,
                         width |-> 520, height |-> dynamicHeight]
         IN Persist("agents", body, pos.by, newItem, existingItems, saveOk)

\* POST /api/lab-results of the in-memory server on the collection
\* loadBoardItems returned: a random position, items.push,
\* boardItemsCache = items, broadcast, 201
PostLabResultsOn(body, valid, loaded) ==
    IF ~valid THEN Reject("lab-results", body)
    ELSE \E rx \in RandomXs, ry \in RandomYs :
         LET newItem == [id |-> nextId, type |-> "lab-result", x |-> rx,
                         y |-> ry, width |-> 400, height |-> 280]
             events == <<[event |-> "new-item", item |-> newItem]>>
         IN /\ store' = Append(loaded, newItem)
            /\ last' = [Response("lab-results", body, 201, "random", newItem,
                                 loaded)
                          EXCEPT !.events = events]
            /\ history' = Append(history, [id |-> newItem.id, by |-> "random",
                                           endpoint |-> "lab-results"])
            /\ nextId' = nextId + 1
            /\ broadcastSSE(events)

\* the same request where the clock is not followed: the collection is the
\* cached one, or the source data when the cache has expired
PostLabResultsMemory(body, valid) ==
    \E loaded \in {store, <<ehrItem>>} : PostLabResultsOn(body, valid, loaded)

CACHE_DURATION == 60000

\* the cache is there and fresh
CacheFresh ==
    /\ cache.lastLoadTime # NoTime
    /\ cache.now - cache.lastLoadTime < CACHE_DURATION

\* loadBoardItems of the in-memory server: a copy of boardItemsCache while
\* it is fresh, else the source data, which replaces the cache
loadBoardItemsCached == IF CacheFresh THEN store ELSE <<ehrItem>>

\* lastLoadTime after loadBoardItems
Loaded == IF CacheFresh THEN cache ELSE [cache EXCEPT !.lastLoadTime = cache.now]

\* GET /api/board-items of the in-memory server
GetBoardItems ==
    /\ backend = "memory"
    /\ store' = loadBoardItemsCached
    /\ cache' = Loaded
    /\ last' = Response("get", NoBody, 200, "none", NoItem,
                        loadBoardItemsCached)
    /\ UNCHANGED <<nextId, history, sseClients>>

\* POST /api/lab-results of the in-memory server at the time of the clock
PostLabResultsAt(body, valid) ==
    /\ backend = "memory"
    /\ PostLabResultsOn(body, valid, IF valid THEN loadBoardItemsCached ELSE store)
    /\ cache' = IF valid THEN Loaded ELSE cache

\* ms pass without a request
Wait(ms) ==
    /\ cache' = [cache EXCEPT !.now = @ + ms]
    /\ UNCHANGED <<store, nextId, last, history, sseClients>>

PostLabResults(body, valid, saveOk) ==
    IF backend = "memory" THEN PostLabResultsMemory(body, valid)
    ELSE IF ~valid THEN Reject("lab-results", body)
    ELSE LET existingItems == loadBoardItems
             pos == ZonePlacement(body,
                       [type |-> "lab-result", width |-> 400, height |-> 280],
                       existingItems)
             newItem == [id |-> nextId, type |-> "lab-result", x |-> pos.x,
                         y |-> pos.y, width |-> 400, height |-> 280]
         IN Persist("lab-results", body, pos.by, newItem, existingItems, saveOk)

\* width defaults to 450 and height to 'auto'; the caller may set both
PostEnhancedTodo(body, valid, width, height, saveOk) ==
    IF ~valid THEN Reject("enhanced-todo", body)
    ELSE LET existingItems == loadBoardItems
             pos == ZonePlacement(body,
                       [type |-> "todo", width |-> width, height |-> 400],
                       existingItems)
             newItem == [id |-> nextId, type |-> "todo", x |-> pos.x, y |-> pos.y,
                         width |-> width, height |-> height]
         IN Persist("enhanced-todo", body, pos.by, newItem, existingItems, saveOk)

\* x: x || random, y: y || random, then always findNonOverlappingPosition
PostComponents(body, valid, componentType, saveOk) ==
    IF ~valid THEN Reject("components", body)
    ELSE \E rx \in RandomXs, ry \in RandomYs :
         LET seeded == [id |-> nextId, type |-> "component",
                        x |-> IF Truthy(body, "x") THEN body["x"] ELSE rx,
                        y |-> IF Truthy(body, "y") THEN body["y"] ELSE ry,
                        width |-> componentDefaultWidth(componentType),
                        height |-> componentDefaultHeight(componentType)]
             existingItems == loadBoardItems
             \* the Redis server stores the seeded position as it is
             runs == IF backend = "redis"
                     THEN {Outcome([pos |-> <<seeded.x, seeded.y>>,
                                    reseeds |-> 0, first |-> 0], 0, TRUE)}
                     ELSE findNonOverlappingRuns(seeded, existingItems)
         IN \E run \in runs :
              LET finalPosition == run.pos
                  newItem == [seeded EXCEPT !.x = finalPosition[1],
                                            !.y = finalPosition[2]]
              IN PersistRun("components", body, "freeform", newItem,
                            existingItems, saveOk, run)

\* x: x || random, y: y || random; no allocator
PostBoardItems(body, valid, type, saveOk) ==
    IF ~valid THEN Reject("board-items", body)
    ELSE \E rx \in RandomXs, ry \in RandomYs :
         LET newItem == [id |-> nextId, type |-> type,
                         x |-> IF Truthy(body, "x") THEN body["x"] ELSE rx,
                         y |-> IF Truthy(body, "y") THEN body["y"] ELSE ry,
                         width |-> IF type = "component"
                                   THEN componentDefaultWidth("")
                                   ELSE legacyDefaultWidth(type),
                         height |-> IF type = "component"
                                    THEN componentDefaultHeight("")
                                    ELSE legacyDefaultHeight(type)]
             existingItems == loadBoardItems
         IN Persist("board-items", body,
                    IF Truthy(body, "x") /\ Truthy(body, "y") THEN "manual"
                    ELSE "random",
                    newItem, existingItems, saveOk)

----------------------------------------------------------------------------
(* Server: POST /api/focus and DELETE /api/task-zone.  A focus body has    *)
(* objectId and itemId (0: absent or empty), subElement (NoSub: absent)    *)
(* and focusOptions, a function from the supplied option names to values.  *)

NoSub == ""
NoOptions == [k \in {} |-> 0]

\* { ...defaultOptions, ...(focusOptions || {}) }
Merge(defaults, overrides) ==
    [k \in DOMAIN defaults \cup DOMAIN overrides |->
        IF k \in DOMAIN overrides THEN overrides[k] ELSE defaults[k]]

\* defaultOptions of the file server and of the Redis server
defaultOptions(subElement) ==
    LET opts(zoom, duration) ==
            [k \in {"zoom", "highlight", "duration", "scrollIntoView"} |->
                CASE k = "zoom" -> zoom
                  [] k = "highlight" -> subElement # NoSub
                  [] k = "duration" -> duration
                  [] OTHER -> TRUE]
    IN IF backend = "file"
       THEN opts(IF subElement # NoSub THEN <<3, 2>> ELSE <<6, 5>>,
                 IF subElement # NoSub THEN 800 ELSE 600)
       ELSE opts(IF subElement # NoSub THEN <<3, 2>> ELSE <<4, 5>>, 2000)

\* POST /api/focus of the in-memory server: objectId only
PostFocusMemory(body) ==
    IF body.objectId = 0
    THEN /\ last' = Response("focus", body, 400, "none", NoItem, <<>>)
         /\ UNCHANGED sseClients
    ELSE LET payload == [event |-> "focus-item", objectId |-> body.objectId,
                         timestamp |-> "now"]
         IN /\ broadcastSSE(<<payload>>)
            /\ last' = [Response("focus", body, 200, "none", NoItem, <<>>)
                          EXCEPT !.events = <<payload>>,
                                 !.ack = [success |-> TRUE,
                                          objectId |-> body.objectId]]

\* POST /api/focus
PostFocus(body) ==
    /\ IF backend = "memory" THEN PostFocusMemory(body)
       ELSE LET targetId == IF body.itemId # 0 THEN body.itemId
                            ELSE body.objectId
            IN IF targetId = 0
               THEN /\ last' = Response("focus", body, 400, "none", NoItem, <<>>)
                    /\ UNCHANGED sseClients
               ELSE LET options == Merge(defaultOptions(body.subElement),
                                         body.focusOptions)
                        payload == [event |-> "focus",
                                    objectId |-> targetId,
                                    itemId |-> targetId,
                                    subElement |-> body.subElement,
                                    focusOptions |-> options,
                                    timestamp |-> "now"]
                    IN /\ broadcastSSE(<<payload>>)
                       /\ last' = [Response("focus", body, 200, "none",
                                            NoItem, <<>>)
                                     EXCEPT !.events = <<payload>>,
                                            !.ack = [success |-> TRUE,
                                                     itemId |-> targetId,
                                                     subElement |-> body.subElement,
                                                     focusOptions |-> options]]
    /\ UNCHANGED <<store, nextId, history>>

\* mutant: everything inside the zone is removed, whatever its type
DeleteTaskZone_anyType(saveOk) ==
    /\ backend = "file"
    /\ saveOk
    /\ store' = SelectSeq(store, LAMBDA item : ~InTaskZone(item))
    /\ last' = [Response("task-zone", NoBody, 200, "none", NoItem, store)
                  EXCEPT !.removedCount =
                     Len(store) - Len(SelectSeq(store,
                                         LAMBDA item : ~InTaskZone(item)))]
    /\ UNCHANGED <<nextId, history, sseClients>>

\* DELETE /api/task-zone (file server): keeps the items that are not both
\* inside the zone and of an API type, saves, reports the count
DeleteTaskZone(saveOk) ==
    LET loaded == loadBoardItems
        filteredItems == SelectSeq(loaded,
                            LAMBDA item : ~(InTaskZone(item) /\ IsApiItem(item)))
        removedCount == Len(loaded) - Len(filteredItems)
    IN /\ backend = "file"
       /\ IF saveOk
          THEN /\ store' = filteredItems
               /\ last' = [Response("task-zone", NoBody, 200, "none", NoItem,
                                    loaded)
                             EXCEPT !.removedCount = removedCount]
          ELSE /\ last' = [Response("task-zone", NoBody, 500, "none", NoItem,
                                    loaded)
                             EXCEPT !.saved = FALSE]
               /\ UNCHANGED store
       /\ UNCHANGED <<nextId, history, sseClients>>

\* the first index of the item with that id, 0 when there is none
findIndex(list, id) ==
    IF \E i \in 1..Len(list) : list[i].id = id
    THEN CHOOSE i \in 1..Len(list) :
            /\ list[i].id = id
            /\ \A j \in 1..Len(list) : list[j].id = id => i <= j
    ELSE 0

\* saveBoardItems as a request without a broadcast sees it: the file server
\* throws on failure (500, nothing stored), the Redis server returns false
\* and the handler answers as if the collection had been stored
SaveOrFail(endpoint, body, newStore, ok, saveOk) ==
    IF saveOk \/ backend = "redis"
    THEN /\ store' = IF saveOk THEN newStore ELSE store
         /\ last' = [ok EXCEPT !.saved = saveOk]
    ELSE /\ last' = [Response(endpoint, body, 500, "none", NoItem, store)
                       EXCEPT !.saved = FALSE]
         /\ UNCHANGED store

\* PUT /api/board-items/:id: { ...items[itemIndex], ...updates, updatedAt }
PutBoardItem(id, updates, saveOk) ==
    LET loaded == loadBoardItems
        itemIndex == findIndex(loaded, id)
    IN /\ backend # "memory"
       /\ IF itemIndex = 0
          THEN /\ last' = Response("put", updates, 404, "none", NoItem, loaded)
               /\ UNCHANGED store
          ELSE LET updated == Merge(loaded[itemIndex], updates)
               IN SaveOrFail("put", updates,
                             [loaded EXCEPT ![itemIndex] = updated],
                             Response("put", updates, 200, "none", updated,
                                      loaded),
                             saveOk)
       /\ UNCHANGED <<nextId, history, sseClients>>

\* DELETE /api/board-items/:id: items.filter(item => item.id !== id)
DeleteBoardItem(id, saveOk) ==
    LET loaded == loadBoardItems
        filteredItems == SelectSeq(loaded, LAMBDA item : item.id # id)
    IN /\ backend # "memory"
       /\ IF Len(filteredItems) = Len(loaded)
          THEN /\ last' = Response("delete", NoBody, 404, "none", NoItem, loaded)
               /\ UNCHANGED store
          ELSE SaveOrFail("delete", NoBody, filteredItems,
                          [Response("delete", NoBody, 200, "none", NoItem,
                                    loaded)
                             EXCEPT !.removedCount =
                                Len(loaded) - Len(filteredItems)],
                          saveOk)
       /\ UNCHANGED <<nextId, history, sseClients>>

----------------------------------------------------------------------------
(* Viewer state is defined below; the server specifications leave it alone *)


\* ids of created items are fresh: they start above the static data's ids
FirstId == 11

ServerInit ==
    /\ store = <<ehrItem>>
    /\ nextId = FirstId
    /\ last = Response("none", NoBody, 0, "none", NoItem, <<>>)
    /\ history = <<>>
    /\ pending = {}
    /\ cache = NoLoad

----------------------------------------------------------------------------
(* Viewer arithmetic: JS numbers are modelled as exact rationals <<n, d>>, *)
(* d > 0, in lowest terms.                                                 *)

Abs(i) == IF i < 0 THEN -i ELSE i

\* Each operator hands its arguments to a function, so that an argument is
\* evaluated once however often the body reads it.
Rat == Int \X Int

rGcd[a \in Int, b \in Int] == IF b = 0 THEN a ELSE rGcd[b, a % b]
GCD(a, b) == rGcd[a, b]

rNorm[n \in Int, d \in Int] ==
    LET g == rGcd[Abs(n), Abs(d)]
        s == IF d < 0 THEN -1 ELSE 1
    IN <<(s * n) \div g, (s * d) \div g>>
R(n, d) == rNorm[n, d]

RInt(i) == <<i, 1>>
rAdd[a \in Rat, b \in Rat] == rNorm[a[1] * b[2] + b[1] * a[2], a[2] * b[2]]
RAdd(a, b) == rAdd[a, b]
rSub[a \in Rat, b \in Rat] == rNorm[a[1] * b[2] - b[1] * a[2], a[2] * b[2]]
RSub(a, b) == rSub[a, b]
\* cross-cancel before multiplying to keep the products small
rMul[a \in Rat, b \in Rat] ==
    LET g1 == rGcd[Abs(a[1]), b[2]]
        g2 == rGcd[Abs(b[1]), a[2]]
    IN rNorm[(a[1] \div g1) * (b[1] \div g2), (a[2] \div g2) * (b[2] \div g1)]
RMul(a, b) == rMul[a, b]
rDiv[a \in Rat, b \in Rat] ==
    IF b[1] < 0 THEN rMul[a, <<-b[2], -b[1]>>] ELSE rMul[a, <<b[2], b[1]>>]
RDiv(a, b) == rDiv[a, b]
rLe[a \in Rat, b \in Rat] == a[1] * b[2] <= b[1] * a[2]
RLe(a, b) == rLe[a, b]
rLt[a \in Rat, b \in Rat] == a[1] * b[2] < b[1] * a[2]
RLt(a, b) == rLt[a, b]
RMin(a, b) == IF RLe(a, b) THEN a ELSE b
RMax(a, b) == IF RLe(b, a) THEN a ELSE b

\* a + (b - a) * k
Lerp(a, b, k) == RAdd(a, RMul(RSub(b, a), k))

----------------------------------------------------------------------------
(* Viewer: Canvas.tsx *)

\* container.clientWidth / clientHeight of the canvas parent
containerWidth == 400
containerHeight == 200

halfW == R(containerWidth, 2)
halfH == R(containerHeight, 2)

minZoom == <<1, 10>>
maxZoom == <<3, 1>>

clampZoom(z) == RMax(minZoom, RMin(maxZoom, z))

easeInOut(t) ==
    IF RLt(t, <<1, 2>>)
    THEN RMul(RInt(2), RMul(t, t))
    ELSE RAdd(RInt(-1), RMul(RSub(RInt(4), RMul(RInt(2), t)), t))

ItemCenterX(item) == RAdd(RInt(item.x), R(item.width, 2))
ItemCenterY(item) == RAdd(RInt(item.y), R(item.height, 2))

\* world point shown at the screen center by viewport v
CenterWorldX(v) == RDiv(RSub(halfW, v.x), v.zoom)
CenterWorldY(v) == RDiv(RSub(halfH, v.y), v.zoom)

\* translation that puts world point (cx, cy) at the screen center at zoom z
CenteredAt(cx, cy, z) ==
    [x |-> RSub(halfW, RMul(cx, z)), y |-> RSub(halfH, RMul(cy, z)), zoom |-> z]

zoomOutZoom(a) == clampZoom(RMul(a.start.zoom, <<3, 10>>))

\* (targetViewportX, targetViewportY) at the zoomed-out level
targetViewport(a) ==
    CenteredAt(ItemCenterX(a.item), ItemCenterY(a.item), zoomOutZoom(a))

\* (finalViewportX, finalViewportY) with the requested zoom
finalViewport(a) ==
    CenteredAt(ItemCenterX(a.item), ItemCenterY(a.item), a.finalZoom)

phaseDuration(a) == R(a.duration, 3)
t1(a) == phaseDuration(a)
t2(a) == RMul(phaseDuration(a), RInt(2))
t3(a) == RInt(a.duration)

\* Step 1: zoom out around the current viewport center
step1(a, elapsed) ==
    LET k == easeInOut(RDiv(elapsed, t1(a)))
        currentZoom == Lerp(a.start.zoom, zoomOutZoom(a), k)
    IN CenteredAt(CenterWorldX(a.start), CenterWorldY(a.start), currentZoom)

\* Step 2: pan to the target at the zoomed-out level
step2(a, elapsed) ==
    LET k == easeInOut(RDiv(RSub(elapsed, t1(a)), RSub(t2(a), t1(a))))
        step1End == CenteredAt(CenterWorldX(a.start), CenterWorldY(a.start),
                               zoomOutZoom(a))
    IN [x |-> Lerp(step1End.x, targetViewport(a).x, k),
        y |-> Lerp(step1End.y, targetViewport(a).y, k),
        zoom |-> zoomOutZoom(a)]

\* Step 3: zoom in on the target
step3(a, elapsed) ==
    LET k == easeInOut(RDiv(RSub(elapsed, t2(a)), RSub(t3(a), t2(a))))
    IN [x |-> Lerp(targetViewport(a).x, finalViewport(a).x, k),
        y |-> Lerp(targetViewport(a).y, finalViewport(a).y, k),
        zoom |-> Lerp(zoomOutZoom(a), a.finalZoom, k)]

\* the viewport one run of animate() writes
animate(a, elapsed) ==
    IF RLe(elapsed, t1(a)) THEN step1(a, elapsed)
    ELSE IF RLe(elapsed, t2(a)) THEN step2(a, elapsed)
    ELSE step3(a, elapsed)

progress(a, elapsed) == RMin(RDiv(elapsed, RInt(a.duration)), RInt(1))

NoFrame == [anim |-> 0]
NoCall == [kind |-> "none"]

FindItem(itemId) == {i \in 1..Len(items) : items[i].id = itemId}

\* mutant: an unknown id falls back to the first item instead of returning
centerOnItem_fallback(itemId, finalZoom, duration) ==
    LET item == IF FindItem(itemId) = {} THEN items[1]
                ELSE items[CHOOSE i \in FindItem(itemId) : TRUE]
    IN /\ anims' = anims \cup
             {[id |-> nextAnim, item |-> item, start |-> viewport,
               finalZoom |-> finalZoom, duration |-> duration, elapsed |-> 0]}
       /\ nextAnim' = nextAnim + 1

\* centerOnItem(itemId, finalZoom, duration)
centerOnItem(itemId, finalZoom, duration) ==
    IF FindItem(itemId) = {}
    THEN UNCHANGED <<anims, nextAnim>>
    ELSE LET item == items[CHOOSE i \in FindItem(itemId) :
                             \A j \in FindItem(itemId) : i <= j]
         IN /\ anims' = anims \cup
                  {[id |-> nextAnim, item |-> item, start |-> viewport,
                    finalZoom |-> finalZoom, duration |-> duration,
                    elapsed |-> 0]}
            /\ nextAnim' = nextAnim + 1

\* a direct call (Ctrl+F, window.centerOnItem)
CenterOnItem(itemId, finalZoom, duration) ==
    /\ lastCall.n < MaxCalls
    /\ Cardinality(anims) < MaxAnims
    /\ centerOnItem(itemId, finalZoom, duration)
    /\ lastCall' = [kind |-> "center", n |-> lastCall.n + 1, id |-> itemId,
                    found |-> FindItem(itemId) # {}, before |-> viewport,
                    framesBefore |-> anims]
    /\ UNCHANGED <<viewport, lastFrame, selectedItemId, drag, gestures, items>>

\* items.find(i => i.id === id) finds an item
Knows(list, id) == \E i \in 1..Len(list) : list[i].id = id

\* the loop registered last: its callback runs last in a frame
Newest(as) == CHOOSE a \in as : \A b \in as : b.id <= a.id

\* sub-elements the rendered items expose through data-focus-id
DomFocusIds == {"todo-2"}

\* setTimeout(..., 100) of the focus handlers
highlightDelay == 100

\* classList events of the next `step` ms, each at its offset in the step:
\* a due "add" timer adds the class when querySelector finds the element
\* and schedules the removal `duration` ms later; a due "remove" removes it
ClassEvents(step) ==
    LET due == {t \in timers : t.left <= step}
        adds == {t \in due : t.kind = "add" /\ t.sub \in DomFocusIds}
    IN {[kind |-> "add", sub |-> t.sub, off |-> t.left, t |-> t] : t \in adds}
       \cup {[kind |-> "remove", sub |-> t.sub, off |-> t.left + t.duration,
              t |-> t] : t \in {u \in adds : u.left + u.duration <= step}}
       \cup {[kind |-> "remove", sub |-> t.sub, off |-> t.left, t |-> t] :
               t \in {u \in due : u.kind = "remove"}}

\* the timers still pending after `step` ms
TimersAfter(step) ==
    {[t EXCEPT !.left = t.left - step] : t \in {u \in timers : u.left > step}}
    \cup {[t EXCEPT !.kind = "remove", !.left = t.left + t.duration - step] :
            t \in {u \in timers : /\ u.kind = "add" /\ u.left <= step
                                  /\ u.sub \in DomFocusIds
                                  /\ u.left + u.duration > step}}

\* the highlighted sub-elements after `step` ms: the latest classList event
\* on a sub-element decides
HighlightedAfter(step) ==
    LET evs == ClassEvents(step)
        latest(e) == \A f \in evs : f.sub = e.sub => f.off <= e.off
    IN {h \in highlighted : \A e \in evs : e.sub # h.sub}
       \cup {[sub |-> e.sub, at |-> highlightDelay, duration |-> e.t.duration,
              anim |-> e.t.anim] : e \in {f \in evs : f.kind = "add" /\ latest(f)}}

\* MeetMainStage's setTimeout(() => centerOnItem(itemId, 0.8, 3000), 100);
\* `known` records whether the target was in the list when the focus event
\* was handled, `late` that an animation ran for a target that was not
MeetAfter(step) ==
    IF meet.timer # 0 /\ highlightDelay <= step
    THEN [meet EXCEPT !.timer = 0, !.centerOn = meet.timer,
                      !.animated = IF Knows(meet.items, meet.timer)
                                   THEN meet.timer ELSE @,
                      !.late = @ \/ (Knows(meet.items, meet.timer)
                                       /\ ~meet.known)]
    ELSE meet

\* `step` ms pass and a browser frame runs: due timers fire, then every
\* pending animate callback runs with its own elapsed time, in registration
\* order, so the viewport keeps the write of the newest loop; a loop whose
\* progress reached 1 requests no further frame
Frame(step) ==
    /\ anims # {} \/ timers # {} \/ meet.timer # 0
    /\ timers' = TimersAfter(step)
    /\ highlighted' = HighlightedAfter(step)
    /\ meet' = MeetAfter(step)
    /\ IF anims = {} THEN UNCHANGED <<viewport, anims, lastFrame>>
       ELSE
       LET advanced == {[a EXCEPT !.elapsed = a.elapsed + step] : a \in anims}
           a == Newest(advanced)
           isDone(l) == ~RLt(progress(l, RInt(l.elapsed)), RInt(1))
       IN /\ viewport' = animate(a, RInt(a.elapsed))
          /\ anims' = {l \in advanced : ~isDone(l)}
          /\ lastFrame' = [anim |-> a.id, a |-> a, elapsed |-> a.elapsed,
                           done |-> isDone(a)]
    /\ UNCHANGED <<nextAnim, lastCall, selectedItemId, drag, gestures, items,
                   seen>>

\* handleWheel: zoom around the cursor
handleWheel(deltaYPositive, mouseX, mouseY) ==
    /\ gestures < MaxGestures
    /\ LET factor == IF deltaYPositive THEN <<9, 10>> ELSE <<11, 10>>
           newZoom == RMax(minZoom, RMin(maxZoom, RMul(viewport.zoom, factor)))
           worldX == RDiv(RSub(RInt(mouseX), viewport.x), viewport.zoom)
           worldY == RDiv(RSub(RInt(mouseY), viewport.y), viewport.zoom)
       IN viewport' = [x |-> RSub(RInt(mouseX), RMul(worldX, newZoom)),
                       y |-> RSub(RInt(mouseY), RMul(worldY, newZoom)),
                       zoom |-> newZoom]
    /\ gestures' = gestures + 1
    /\ lastFrame' = NoFrame
    /\ UNCHANGED <<anims, nextAnim, lastCall, selectedItemId, drag, items>>

\* setIsDragging(true); setLastPanPoint(viewport)
handleMouseDown ==
    /\ ~drag.on
    /\ gestures < MaxGestures
    /\ drag' = [on |-> TRUE, x |-> viewport.x, y |-> viewport.y]
    /\ gestures' = gestures + 1
    /\ UNCHANGED <<viewport, anims, nextAnim, lastFrame, lastCall,
                   selectedItemId, items>>

\* handleGlobalMouseMove while dragging
handleGlobalMouseMove(deltaX, deltaY) ==
    /\ drag.on
    /\ viewport' = [x |-> RAdd(drag.x, RInt(deltaX)),
                    y |-> RAdd(drag.y, RInt(deltaY)),
                    zoom |-> viewport.zoom]
    /\ lastFrame' = NoFrame
    /\ UNCHANGED <<anims, nextAnim, lastCall, selectedItemId, drag, gestures,
                   items>>

handleMouseUp ==
    /\ drag.on
    /\ drag' = [on |-> FALSE, x |-> RInt(0), y |-> RInt(0)]
    /\ UNCHANGED <<viewport, anims, nextAnim, lastFrame, lastCall,
                   selectedItemId, gestures, items>>

\* Ctrl+R: updateViewport({ x: 0, y: 0, zoom: 1 })
ResetView ==
    /\ gestures < MaxGestures
    /\ viewport' = [x |-> RInt(0), y |-> RInt(0), zoom |-> RInt(1)]
    /\ gestures' = gestures + 1
    /\ lastFrame' = NoFrame
    /\ UNCHANGED <<anims, nextAnim, lastCall, selectedItemId, drag, items>>

----------------------------------------------------------------------------
(* Viewer: App.tsx *)

defaultFocusZoom == <<4, 5>>
defaultFocusDuration == 3000

\* focusOptions.zoom / .duration absent or falsy
Absent == <<0, 1>>

\* handleFocusRequest for a focus event (targetId, focusOptions,
\* subElement): select, schedule the sub-element highlight, center.  The
\* item is looked up in the `items` of the handler's closure, centerOnItem
\* looks it up again in the Canvas's items
handleFocusRequest(targetId, zoomOption, durationOption, subElement) ==
    /\ lastCall.n < MaxCalls
    /\ Cardinality(anims) < MaxAnims
    /\ LET zoom == IF zoomOption = Absent THEN defaultFocusZoom ELSE zoomOption
           duration == IF durationOption = 0 THEN defaultFocusDuration
                       ELSE durationOption
       IN IF Knows(seen, targetId)
          THEN /\ selectedItemId' = targetId
               /\ timers' = IF subElement = NoSub THEN timers
                            ELSE timers \cup
                                 {[kind |-> "add", sub |-> subElement,
                                   left |-> highlightDelay,
                                   duration |-> duration, anim |-> nextAnim]}
               /\ centerOnItem(targetId, zoom, duration)
          ELSE UNCHANGED <<selectedItemId, anims, nextAnim, timers>>
    /\ UNCHANGED <<highlighted, meet, seen>>
    /\ lastCall' = [kind |-> "focus", n |-> lastCall.n + 1, id |-> targetId,
                    found |-> Knows(seen, targetId), before |-> viewport,
                    framesBefore |-> anims]
    /\ UNCHANGED <<viewport, lastFrame, drag, gestures, items>>

----------------------------------------------------------------------------
(* Viewers: SSE listeners of BoardApp (App.tsx) and MeetMainStage *)

Viewers == {"BoardApp", "MeetMainStage"}

\* mutant: the item is appended whether or not its id is in the list
AddItem_append(list, newItem) == Append(list, newItem)

\* setItems(prev => prev.some(same id) ? prev : [...prev, newItem])
AddItem(list, newItem) ==
    IF \E i \in 1..Len(list) : list[i].id = newItem.id THEN list
    ELSE Append(list, newItem)

Option(focusOptions, k, absent) ==
    IF k \in DOMAIN focusOptions THEN focusOptions[k] ELSE absent

\* JSON.parse(event.data) returns: every listener parses inside a try whose
\* catch logs the error
Parses(e) == "unparseable" \notin DOMAIN e

\* BoardApp listens to 'focus' and 'new-item'; other events have no listener
BoardAppListener(e) ==
    CASE Parses(e) /\ e.event = "focus" ->
            handleFocusRequest(IF e.objectId # 0 THEN e.objectId ELSE e.itemId,
                               Option(e.focusOptions, "zoom", Absent),
                               Option(e.focusOptions, "duration", 0),
                               e.subElement)
      [] Parses(e) /\ e.event = "new-item" ->
            /\ items' = AddItem(items, e.item)
            /\ UNCHANGED <<viewport, anims, nextAnim, lastFrame, lastCall,
                           selectedItemId, drag, gestures, hvars>>
      [] OTHER -> UNCHANGED <<cvars, hvars>>

\* MeetMainStage listens to 'focus-item', 'new-item', 'update-item' and
\* 'delete-item': the focus handler selects the item and sets a 100 ms
\* timer that calls centerOnItem on its own canvas.  Its SSE effect depends
\* on selectedItemId, so a changed selection makes the effect run again
MeetListener(e) ==
    /\ meet' = CASE Parses(e) /\ e.event = "focus-item" /\ e.objectId # 0 ->
                      [meet EXCEPT !.selectedItemId = e.objectId,
                                   !.timer = e.objectId,
                                   !.known = Knows(meet.items, e.objectId),
                                   !.resub = @ \/ e.objectId # meet.selectedItemId]
                 [] Parses(e) /\ e.event = "new-item" ->
                      [meet EXCEPT !.items = AddItem(meet.items, e.item),
                                   !.dup = @ \/ Knows(meet.items, e.item.id)]
                 [] Parses(e) /\ e.event = "update-item" /\ e.id # 0 ->
                      [meet EXCEPT !.items =
                          [i \in 1..Len(meet.items) |->
                              IF meet.items[i].id = e.id
                              THEN Merge(meet.items[i], e.updates)
                              ELSE meet.items[i]]]
                 [] Parses(e) /\ e.event = "delete-item" /\ e.id # 0 ->
                      [meet EXCEPT !.items = SelectSeq(meet.items,
                                        LAMBDA item : item.id # e.id),
                                   !.selectedItemId =
                                        IF @ = e.id THEN 0 ELSE @,
                                   !.resub = @ \/ meet.selectedItemId = e.id]
                 [] OTHER -> meet
    /\ UNCHANGED <<cvars, timers, highlighted, seen>>

\* dispatching the newest event of a stream first
Deliver_newest(c) ==
    /\ c \in DOMAIN sseClients
    /\ sseClients[c] # <<>>
    /\ LET s == sseClients[c]
       IN /\ IF c = "BoardApp" THEN BoardAppListener(s[Len(s)])
             ELSE MeetListener(s[Len(s)])
          /\ sseClients' = [sseClients EXCEPT ![c] = SubSeq(s, 1, Len(s) - 1)]
    /\ UNCHANGED <<svars, backend>>

\* the browser dispatches the oldest event of a client's stream to the
\* listeners registered on it
Deliver(c) ==
    /\ c \in DOMAIN sseClients
    /\ sseClients[c] # <<>>
    /\ IF c = "BoardApp" THEN BoardAppListener(Head(sseClients[c]))
       ELSE MeetListener(Head(sseClients[c]))
    /\ sseClients' = [sseClients EXCEPT ![c] = Tail(@)]
    /\ UNCHANGED <<svars, backend>>

\* the stream of client c is gone: the server's 'close' handler deletes it
\* from sseClients, what was written to it and not dispatched is lost
Closed(c) == [d \in DOMAIN sseClients \ {c} |-> sseClients[d]]

\* new EventSource(`${API_BASE_URL}/api/events`): the viewer's stream comes
\* from the server its API_BASE_URL names, event e is written to it
Receive(c, e) ==
    /\ c \in DOMAIN sseClients
    /\ sseClients' = [sseClients EXCEPT ![c] = Append(@, e)]
    /\ UNCHANGED <<svars, cvars, backend, hvars>>

\* a viewer's SSE effect runs again because a dependency changed
\* (BoardApp: handleFocusRequest, rebuilt when items changed; MeetMainStage:
\* selectedItemId): the cleanup closes the EventSource and a new one is
\* created, whose listeners close over the current state
Resubscribe(c) ==
    /\ IF c = "BoardApp"
       THEN /\ seen # items
            /\ seen' = items
            /\ UNCHANGED meet
       ELSE /\ meet.resub
            /\ meet' = [meet EXCEPT !.resub = FALSE]
            /\ UNCHANGED seen
    /\ sseClients' = Closed(c)
    /\ UNCHANGED <<svars, cvars, backend, timers, highlighted>>

\* GET /api/events of a new EventSource reaches the server: sseClients.add
Connect(c) ==
    /\ c \notin DOMAIN sseClients
    /\ sseClients' = [d \in DOMAIN sseClients \cup {c} |->
                         IF d = c THEN <<>> ELSE sseClients[d]]
    /\ UNCHANGED <<svars, cvars, backend, hvars>>

----------------------------------------------------------------------------
(* Initial states and specifications *)

\* the viewer's static board data
boardItemsData ==
    << [id |-> 1, type |-> "ehr", x |-> 0, y |-> 0, width |-> 200, height |-> 100],
       [id |-> 2, type |-> "todo", x |-> 300, y |-> 100, width |-> 100,
        height |-> 100] >>

ViewerInit ==
    /\ viewport = [x |-> RInt(0), y |-> RInt(0), zoom |-> RInt(1)]
    /\ anims = {}
    /\ nextAnim = 1
    /\ lastFrame = NoFrame
    /\ lastCall = [kind |-> "none", n |-> 0]
    /\ selectedItemId = 0
    /\ drag = [on |-> FALSE, x |-> RInt(0), y |-> RInt(0)]
    /\ gestures = 0
    /\ items = boardItemsData
    /\ timers = {}
    /\ highlighted = {}
    /\ meet = [selectedItemId |-> 0, items |-> boardItemsData, timer |-> 0,
               centerOn |-> 0, animated |-> 0, resub |-> FALSE,
               known |-> TRUE, late |-> FALSE, dup |-> FALSE]
    /\ seen = boardItemsData

Backends == {"file", "redis", "memory"}
NoClients == [c \in {} |-> <<>>]

\* any server variant, no viewer connected
Init ==
    /\ ServerInit /\ ViewerInit
    /\ backend \in Backends
    /\ sseClients = NoClients

\* the file server, no viewer connected
InitFile ==
    /\ ServerInit /\ ViewerInit
    /\ backend = "file"
    /\ sseClients = NoClients

\* any server variant, both viewers connected
InitBus ==
    /\ ServerInit /\ ViewerInit
    /\ backend \in Backends
    /\ sseClients = [c \in Viewers |-> <<>>]

\* ids a caller may name: the two known items and one unknown id
CallIds == {1, 2, 9}
FinalZooms == {<<5, 1>>}
\* ms between two frames: on the phase boundaries, or one frame skipped
TickSteps == {1000, 2000}
Durations == {6000}
FocusZoomOptions == {Absent, <<3, 2>>}
FocusDurationOptions == {0}
MousePoints == {<<100, 50>>}
DragDeltas == {<<-50, 20>>}

\* a creation request served while the store has room in the model
ServerStep(A) ==
    /\ nextId < FirstId + MaxItems
    /\ backend # "memory"
    /\ A
    /\ UNCHANGED <<cvars, backend, hvars, pending, cache>>

\* a request that creates nothing
RequestStep(A) == A /\ UNCHANGED <<cvars, backend, hvars, pending, cache>>

\* focus request bodies: each id field absent or present, with and without
\* a sub-element, with and without a caller override of the zoom
FocusBodies ==
    {[objectId |-> o, itemId |-> i, subElement |-> sub, focusOptions |-> opts] :
        o \in {0, 2}, i \in {0, 1}, sub \in {NoSub, "todo-2"},
        opts \in {NoOptions, [k \in {"zoom"} |-> <<2, 1>>]}}

\* general server specification: every creation endpoint, manual and auto
Next ==
    \/ \E body \in Bodies, valid \in BOOLEAN, saveOk \in BOOLEAN, n \in TodoCounts :
          ServerStep(PostTodos(body, valid, n, FALSE, saveOk))
    \/ \E body \in Bodies, valid \in BOOLEAN, saveOk \in BOOLEAN, len \in ContentLengths :
          ServerStep(PostAgents(body, valid, len, saveOk))
    \/ \E body \in Bodies, valid \in BOOLEAN, saveOk \in BOOLEAN :
          ServerStep(PostLabResults(body, valid, saveOk))
    \/ \E body \in Bodies, valid \in BOOLEAN, saveOk \in BOOLEAN, sz \in EnhancedSizes :
          ServerStep(PostEnhancedTodo(body, valid, sz[1], sz[2], saveOk))
    \/ \E body \in Bodies, valid \in BOOLEAN, saveOk \in BOOLEAN, ct \in ComponentTypes :
          ServerStep(PostComponents(body, valid, ct, saveOk))
    \/ \E body \in Bodies, valid \in BOOLEAN, saveOk \in BOOLEAN, ty \in LegacyTypes :
          ServerStep(PostBoardItems(body, valid, ty, saveOk))
    \/ \E body \in FocusBodies : RequestStep(PostFocus(body))
    \/ \E saveOk \in BOOLEAN : RequestStep(DeleteTaskZone(saveOk))

Spec == Init /\ [][Next]_vars

\* grid-fill specification: auto-positioned creations only, every one
\* persisted, footprints within one column by one row
GridTodoCounts == {11}
GridContentLengths == {10}
GridEnhancedSizes == {<<560, 490>>}

Varied == Len(SelectSeq(history, LAMBDA h : h.endpoint # "lab-results"))

GridStep(A) ==
    /\ Len(store) < 1 + MaxGridItems
    /\ A
    /\ UNCHANGED <<cvars, backend, hvars, pending, cache>>

NextGrid ==
    \/ GridStep(PostLabResults(NoBody, TRUE, TRUE))
    \/ \E n \in GridTodoCounts :
          GridStep(Varied < MaxVaried /\ PostTodos(NoBody, TRUE, n, FALSE, TRUE))
    \/ \E len \in GridContentLengths :
          GridStep(Varied < MaxVaried /\ PostAgents(NoBody, TRUE, len, TRUE))
    \/ \E sz \in GridEnhancedSizes :
          GridStep(Varied < MaxVaried
                   /\ PostEnhancedTodo(NoBody, TRUE, sz[1], sz[2], TRUE))

SpecGrid == InitFile /\ [][NextGrid]_vars

\* viewer specification: camera animation, gestures and focus events
CamStep(A) == A /\ UNCHANGED <<svars, bvars, hvars>>
\* a viewer operation that handles its timers itself
ViewStep(A) == A /\ UNCHANGED <<svars, bvars>>

NextCam ==
    \/ \E id \in CallIds, fz \in FinalZooms, d \in Durations :
          CamStep(CenterOnItem(id, fz, d))
    \/ \E step \in TickSteps : ViewStep(Frame(step))
    \/ \E dir \in BOOLEAN, m \in MousePoints :
          CamStep(handleWheel(dir, m[1], m[2]))
    \/ CamStep(handleMouseDown)
    \/ \E dl \in DragDeltas : CamStep(handleGlobalMouseMove(dl[1], dl[2]))
    \/ CamStep(handleMouseUp)
    \/ CamStep(ResetView)
    \/ \E id \in CallIds, fz \in FocusZoomOptions, d \in FocusDurationOptions :
          ViewStep(handleFocusRequest(id, fz, d, NoSub))

SpecCam == InitFile /\ [][NextCam]_vars

\* loop specification: the animation loops of centerOnItem for durations of
\* either sign, frames arriving as long as a loop has one requested
MaxElapsed == 3600     \* ms a loop is followed

\* a duration passed to centerOnItem, positive or negative
LoopDurations == {600, -600}
\* focusOptions.duration of a focus event: absent or 0, or of either sign
LoopFocusDurations == {0, 600, -600}
LoopSteps == {600}

\* a frame is requested or a timer is pending, and the loops are still followed
FrameDue(step) ==
    /\ anims # {} \/ timers # {} \/ meet.timer # 0
    /\ \A a \in anims : a.elapsed + step <= MaxElapsed

\* requestAnimationFrame's callback of the next frame
LoopFrame(step) == FrameDue(step) /\ Frame(step)

NextLoop ==
    \/ \E d \in LoopDurations : CamStep(CenterOnItem(2, <<4, 5>>, d))
    \/ \E d \in LoopFocusDurations :
          ViewStep(handleFocusRequest(2, Absent, d, NoSub))
    \/ \E step \in LoopSteps : ViewStep(LoopFrame(step))

\* the browser runs every requested animation frame
SpecLoop ==
    /\ InitFile /\ [][NextLoop]_vars
    /\ WF_vars(\E step \in LoopSteps : ViewStep(LoopFrame(step)))

\* event-delivery specification: focus and creation requests on any server
\* variant, both viewers connected at the start, events dispatched in
\* stream order, SSE effects re-run when their dependencies changed.
\* Focus bodies name a known item under one of the two field names, or the
\* id the next creation will generate
BusFocusBodies ==
    {b \in FocusBodies : /\ b.focusOptions = NoOptions
                         /\ (b.objectId = 0) # (b.itemId = 0)}
    \cup {[objectId |-> FirstId, itemId |-> 0, subElement |-> NoSub,
           focusOptions |-> NoOptions]}

\* ms between two frames while events are being delivered
BusSteps == {1000}

BusStep(A) ==
    /\ \A c \in DOMAIN sseClients : Len(sseClients[c]) < MaxInFlight
    /\ A
    /\ UNCHANGED <<cvars, backend, hvars, pending, cache>>

BusCreate(A) ==
    BusStep(nextId < FirstId + MaxBusItems /\ A)

NextBus ==
    \/ \E body \in BusFocusBodies : BusStep(PostFocus(body))
    \/ \E saveOk \in BOOLEAN : BusCreate(PostLabResults(NoBody, TRUE, saveOk))
    \/ \E saveOk \in BOOLEAN, ty \in LegacyTypes :
          BusCreate(backend # "memory"
                    /\ PostBoardItems(NoBody, TRUE, ty, saveOk))
    \/ \E c \in Viewers : Deliver(c)
    \/ \E c \in Viewers : Resubscribe(c)
    \/ \E c \in Viewers : Connect(c)
    \/ \E step \in BusSteps : ViewStep(Frame(step))

SpecBus == InitBus /\ [][NextBus]_vars

\* stream specification: creations, updates, deletions and focus requests
\* with several events in flight on a stream; no frame passes
MaxStreamed == 2       \* undispatched events per stream
MaxStreamItems == 2    \* creations in the stream specification

\* a focus request for the first created item, as its caller names it
StreamFocusBodies ==
    {[objectId |-> FirstId, itemId |-> 0, subElement |-> NoSub,
      focusOptions |-> NoOptions]}

StreamStep(A) ==
    /\ \A c \in DOMAIN sseClients : Len(sseClients[c]) < MaxStreamed
    /\ A
    /\ UNCHANGED <<cvars, backend, hvars, pending, cache>>

NextStream ==
    \/ StreamStep(nextId < FirstId + MaxStreamItems
                  /\ PostLabResults(NoBody, TRUE, TRUE))
    \/ \E body \in StreamFocusBodies : StreamStep(PostFocus(body))
    \/ \E id \in {1, FirstId} :
          StreamStep(PutBoardItem(id, [k \in {"x"} |-> 100], TRUE))
    \/ \E id \in {1, FirstId} : StreamStep(DeleteBoardItem(id, TRUE))
    \/ \E c \in Viewers : Deliver(c)
    \/ \E c \in Viewers : Resubscribe(c)
    \/ \E c \in Viewers : Connect(c)

SpecStream == InitBus /\ [][NextStream]_vars

\* listener specification: the viewers' listeners on a stream that carries
\* the events of the four channels, well-formed or not
MaxReceived == 1       \* undispatched events per stream

FocusEvent(name, id, sub) ==
    [event |-> name, objectId |-> id, itemId |-> id, subElement |-> sub,
     focusOptions |-> defaultOptions(sub), timestamp |-> "now"]

arrivingItem ==
    [id |-> FirstId, type |-> "lab-result", x |-> 4200, y |-> 100,
     width |-> 400, height |-> 280]

\* focus events for the item not yet arrived and for a sub-element no
\* rendered item exposes; the item's arrival, an item under the id of the
\* first item of the lists, an update, a deletion; and
\* focus events whose data does not parse
ListenEvents ==
    {FocusEvent(n, FirstId, NoSub) : n \in {"focus", "focus-item"}}
    \cup {FocusEvent("focus", 2, "todo-9")}
    \cup {[event |-> "new-item", item |-> arrivingItem],
          [event |-> "new-item", item |-> [arrivingItem EXCEPT !.id = 1]],
          [event |-> "update-item", id |-> 1, updates |-> [k \in {"x"} |-> 100]],
          [event |-> "delete-item", id |-> 2]}
    \cup {[event |-> n, unparseable |-> TRUE] : n \in {"focus", "focus-item"}}

\* both viewers connected to one server
InitListen ==
    /\ ServerInit /\ ViewerInit
    /\ backend = "file"
    /\ sseClients = [c \in Viewers |-> <<>>]

NextListen ==
    \/ \E c \in DOMAIN sseClients, e \in ListenEvents :
          Len(sseClients[c]) < MaxReceived /\ Receive(c, e)
    \/ \E c \in Viewers : Deliver(c)
    \/ \E c \in Viewers : Resubscribe(c)
    \/ \E c \in Viewers : Connect(c)

SpecListen == InitListen /\ [][NextListen]_vars

\* update specification: creations, PUT and DELETE of single items on the
\* file and the Redis server
MaxCrudItems == 2      \* creations in the update specification

InitCrud ==
    /\ ServerInit /\ ViewerInit
    /\ backend \in {"file", "redis"}
    /\ sseClients = NoClients

\* ids a PUT or DELETE may name: the static item, the created ones
CrudIds == {1, FirstId, FirstId + 1}

\* PUT bodies: a position, another item's id, another type
Updates ==
    {[k \in {"x"} |-> 100], [k \in {"id"} |-> 1], [k \in {"type"} |-> "agent"]}

CrudCreate(A) ==
    /\ nextId < FirstId + MaxCrudItems
    /\ A
    /\ UNCHANGED <<cvars, backend, hvars, pending, cache>>

NextCrud ==
    \/ \E saveOk \in BOOLEAN, n \in TodoCounts :
          CrudCreate(PostTodos(NoBody, TRUE, n, FALSE, saveOk))
    \/ \E saveOk \in BOOLEAN, ty \in LegacyTypes :
          CrudCreate(PostBoardItems(XY(100, 100), TRUE, ty, saveOk))
    \/ \E id \in CrudIds, updates \in Updates, saveOk \in BOOLEAN :
          RequestStep(PutBoardItem(id, updates, saveOk))
    \/ \E id \in CrudIds, saveOk \in BOOLEAN :
          RequestStep(DeleteBoardItem(id, saveOk))

SpecCrud == InitCrud /\ [][NextCrud]_vars

\* free-form specification: component creations on the file server over
\* stores that hold, besides the EHR item, any of: an enhanced todo with
\* the default height 'auto', an item reaching below the 8000 line, an
\* item covering the random seed
MaxFreeItems == 2      \* creations in the free-form specification

autoTodo == [id |-> 2, type |-> "todo", x |-> 3200, y |-> 3700,
             width |-> 450, height |-> AUTO]
deepItem == [id |-> 3, type |-> "component", x |-> 100, y |-> 7700,
             width |-> 520, height |-> 400]
seedItem == [id |-> 4, type |-> "component", x |-> 4200, y |-> 100,
             width |-> 520, height |-> 400]

FreeStores ==
    {<<ehrItem>> \o a \o b \o c :
        a \in {<<>>, <<autoTodo>>}, b \in {<<>>, <<deepItem>>},
        c \in {<<>>, <<seedItem>>}}

\* requested positions: on the EHR item, on free ground, none, on the deep
\* item
FreeBodies == {XY(3200, 3300), XY(100, 100), NoBody, XY(100, 7800)}

InitFree ==
    /\ ViewerInit
    /\ store \in FreeStores
    /\ nextId = FirstId
    /\ last = Response("none", NoBody, 0, "none", NoItem, <<>>)
    /\ history = <<>>
    /\ pending = {}
    /\ cache = NoLoad
    /\ backend = "file"
    /\ sseClients = NoClients

NextFree ==
    \E body \in FreeBodies, valid \in BOOLEAN, saveOk \in BOOLEAN,
       ct \in ComponentTypes :
        /\ nextId < FirstId + MaxFreeItems
        /\ PostComponents(body, valid, ct, saveOk)
        /\ UNCHANGED <<cvars, backend, hvars, pending, cache>>

SpecFree == InitFree /\ [][NextFree]_vars

\* interleaving specification: todo creations on the file and the Redis
\* server, each served in two steps around its awaits
MaxRacing == 3         \* creation requests in the interleaving specification

NextRace ==
    \/ \E body \in {NoBody, XY(100, 100)}, n \in TodoCounts :
          /\ nextId < FirstId + MaxRacing
          /\ LoadTodos(body, n, FALSE)
          /\ UNCHANGED <<cvars, backend, hvars, cache>>
    \/ \E p \in pending, saveOk \in BOOLEAN :
          /\ SaveTodos(p, saveOk)
          /\ UNCHANGED <<cvars, backend, hvars, cache>>

SpecRace == InitCrud /\ [][NextRace]_vars

\* cache specification: the in-memory server over time
MaxTime == 120000      \* ms the process has run
MaxCached == 2         \* creations in the cache specification

WaitSteps == {20000, 45000}

InitMemory ==
    /\ ServerInit /\ ViewerInit
    /\ backend = "memory"
    /\ sseClients = NoClients

MemoryStep(A) == A /\ UNCHANGED <<cvars, backend, hvars, pending>>

NextMemory ==
    \/ MemoryStep(GetBoardItems)
    \/ \E valid \in BOOLEAN :
          MemoryStep(nextId < FirstId + MaxCached
                     /\ PostLabResultsAt(NoBody, valid))
    \/ \E ms \in WaitSteps :
          MemoryStep(cache.now + ms <= MaxTime /\ Wait(ms))

SpecMemory == InitMemory /\ [][NextMemory]_vars

\* zone specification: the file server's allocator on any zone content:
\* auto and manual creations, deletions of single items, a decoration
\* moved into the zone, the zone cleared; started on an empty zone and on
\* a grid with one free cell
MaxZoneItems == 3      \* creations in the zone specification

\* the lab result an auto-positioned creation stored in the k-th cell
gridItem(k) ==
    [id |-> 2 * FirstId + k, type |-> "lab-result",
     x |-> CellPosition(k \div maxCols, k % maxCols).x,
     y |-> CellPosition(k \div maxCols, k % maxCols).y,
     width |-> 400, height |-> 280]

\* the collection after eleven auto-positioned creations
nearlyFullStore ==
    <<ehrItem>> \o [k \in 1..(maxRows * maxCols - 1) |-> gridItem(k - 1)]

\* the stored collection when the server starts: the default one, or the
\* one eleven auto-positioned creations left in data/boardItems.json
ZoneStores == {<<ehrItem>>, nearlyFullStore}

InitZone ==
    /\ ViewerInit
    /\ store \in ZoneStores
    /\ nextId = FirstId
    /\ last = Response("none", NoBody, 0, "none", NoItem, <<>>)
    /\ history = <<>>
    /\ pending = {}
    /\ cache = NoLoad
    /\ backend = "file"
    /\ sseClients = NoClients

\* auto; manual into cell (0, 0) below its upper edge; manual into the
\* zone above the first row
ZoneBodies == {NoBody, XY(4260, 500), XY(4820, 30)}

\* ids a DELETE may name: the created items and the item of cell (0, 0)
ZoneIds == {FirstId, FirstId + 1, 2 * FirstId}

ZoneStep(A) ==
    /\ A
    /\ UNCHANGED <<cvars, backend, hvars, pending, cache, sseClients>>

ZoneCreate(A) ==
    /\ nextId < FirstId + MaxZoneItems
    /\ A
    /\ UNCHANGED <<cvars, backend, hvars, pending, cache>>

NextZone ==
    \/ \E body \in ZoneBodies : ZoneCreate(PostLabResults(body, TRUE, TRUE))
    \/ \E n \in GridTodoCounts : ZoneCreate(PostTodos(NoBody, TRUE, n, FALSE, TRUE))
    \/ \E id \in ZoneIds : ZoneStep(DeleteBoardItem(id, TRUE))
    \/ ZoneStep(PutBoardItem(1, XY(4260, 60), TRUE))
    \/ ZoneStep(DeleteTaskZone(TRUE))

SpecZone == InitZone /\ [][NextZone]_vars

----------------------------------------------------------------------------
(* Properties *)

Numeric(item) == item.height # AUTO

\* two rectangles (x, y, width, height) share interior points
RectsOverlap(a, b) ==
    /\ a.x < b.x + b.width
    /\ b.x < a.x + a.width
    /\ a.y < b.y + b.height
    /\ b.y < a.y + a.height

\* ids of the items the zone allocator positioned
AutoIds == {history[i].id : i \in {j \in 1..Len(history) :
                                     history[j].by \in {"grid", "overflow"}}}

AutoItems == {store[i] : i \in {j \in 1..Len(store) : store[j].id \in AutoIds}}

\* the item the k-th successful creation stored
Created(k) == CHOOSE it \in {store[i] : i \in 1..Len(store)} : it.id = history[k].id

\* C1 (P1): while at most maxRows x maxCols = 12 items have been created by
\* auto-positioned creations, no two of the auto-positioned rectangles whose
\* footprint is at most one column by one row (560 x 490) overlap.
C1_NoOverlapWithinGrid ==
    Len(history) <= 12 =>
        \A a \in AutoItems, b \in AutoItems :
            (/\ a.id # b.id
             /\ Numeric(a) /\ Numeric(b)
             /\ a.width <= 560 /\ a.height <= 490
             /\ b.width <= 560 /\ b.height <= 490)
            => ~RectsOverlap(a, b)

\* the grid is filled with twelve auto-positioned items, one of them with
\* the largest admitted footprint
C1_Witness ==
    /\ Len(history) = 12
    /\ Cardinality(AutoItems) = 12
    /\ \E a \in AutoItems : a.width = 560 /\ a.height = 490

\* C2: an auto-positioned item never overlaps an existing agent / todo /
\* lab-result item located in the zone, whatever the store holds (real
\* endpoint footprints, manually placed items).
C2_AutoPlacementNoOverlap ==
    (last.status = 201 /\ last.by \in {"grid", "overflow"} /\ Numeric(last.item)) =>
        \A i \in 1..Len(last.existing) :
            LET e == last.existing[i]
            IN (IsApiItem(e) /\ InTaskZone(e) /\ Numeric(e))
               => ~RectsOverlap(last.item, e)

\* C3 (P2): from a zone without grid-managed items, the k-th auto-positioned
\* creation (k counted from 0) lands in cell (k div 3, k mod 3), at
\* x = 4200 + col * 560 + 60, y = row * 490 + 60; the first four positions
\* are (4260,60), (4820,60), (5380,60), (4260,550).
C3_FillOrder ==
    /\ \A k \in 0..(Len(history) - 1) :
          k < 12 =>
             /\ Created(k + 1).x = 4200 + (k % 3) * 560 + 60
             /\ Created(k + 1).y = 0 + (k \div 3) * 490 + 60
    /\ Len(history) >= 4 =>
          /\ <<Created(1).x, Created(1).y>> = <<4260, 60>>
          /\ <<Created(2).x, Created(2).y>> = <<4820, 60>>
          /\ <<Created(3).x, Created(3).y>> = <<5380, 60>>
          /\ <<Created(4).x, Created(4).y>> = <<4260, 550>>

\* the whole grid has been filled, wrapping three times
C3_Witness ==
    /\ Len(history) = 12
    /\ last.by = "grid"
    /\ <<last.item.x, last.item.y>> = <<5380, 1530>>

\* C4 (P3): with every grid cell occupied an auto-positioned creation still
\* succeeds, at x = zone.x + padding and
\* y = zone.y + padding + count(filtered) * (rowHeight + padding); that
\* position is below every grid row and maps to no tracked cell.
C4_OverflowFallback ==
    (last.status # 0 /\ last.body = NoBody /\ GridFull(last.existing)) =>
        LET n == Len(taskZoneItems(last.existing))
        IN /\ last.status = 201
           /\ last.item.x = 4200 + 60
           /\ last.item.y = 0 + 60 + n * (490 + 60)
           /\ last.item.y >= 0 + 60 + 4 * 490
           /\ \A i \in 1..Len(last.existing) :
                 (IsApiItem(last.existing[i]) /\ InTaskZone(last.existing[i]))
                 => last.item.y >= last.existing[i].y + 490
           /\ ~(\E row \in 0..3 :
                   (last.item.y - 0 - 60) \div 490 = row)

\* a creation has been answered from the overflow branch
C4_Witness ==
    /\ last.status = 201
    /\ last.by = "overflow"
    /\ GridFull(last.existing)
    /\ Len(taskZoneItems(last.existing)) = 12

\* C5 (P4): a creation request that supplies x and/or y (0 included) gets
\* exactly those values and no allocator runs, on every endpoint.
C5_ManualVerbatim ==
    (last.status = 201 /\ last.body # NoBody) =>
        /\ \A k \in DOMAIN last.body : last.item[k] = last.body[k]
        /\ last.by = "manual"

FrameWritten == lastFrame.anim # 0

ScreenCenterWorld(v) == <<CenterWorldX(v), CenterWorldY(v)>>
ItemCenter(item) == <<ItemCenterX(item), ItemCenterY(item)>>
Clamped(z) == RMax(<<1, 10>>, RMin(<<3, 1>>, z))

\* C7 (P5): the frame at elapsed D/3 has zoom clamp(0.3 * z0) with the
\* pre-call center still centered; the frame at 2D/3 has that zoom and the
\* target centered; the frame at D has zoom clamp(finalZoom) and the target
\* centered; the phases join continuously.
C7_PhaseBoundaries ==
    FrameWritten =>
        LET a == lastFrame.a
            e == lastFrame.elapsed
            zo == Clamped(RMul(a.start.zoom, <<3, 10>>))
        IN /\ 3 * e = a.duration =>
                 /\ viewport.zoom = zo
                 /\ ScreenCenterWorld(viewport) = ScreenCenterWorld(a.start)
           /\ 3 * e = 2 * a.duration =>
                 /\ viewport.zoom = zo
                 /\ ScreenCenterWorld(viewport) = ItemCenter(a.item)
           /\ e = a.duration =>
                 /\ viewport.zoom = Clamped(a.finalZoom)
                 /\ ScreenCenterWorld(viewport) = ItemCenter(a.item)
           /\ step1(a, t1(a)) = step2(a, t1(a))
           /\ step2(a, t2(a)) = step3(a, t2(a))

\* C8: the viewport zoom is within [0.1, 3.0] in every reachable state.
C8_ZoomInRange ==
    /\ RLe(<<1, 10>>, viewport.zoom)
    /\ RLe(viewport.zoom, <<3, 1>>)

\* C9 (P6): a focus request or centerOnItem call naming an id that is not
\* in the item list changes neither the viewport nor the set of scheduled
\* frames (nor the selection).
C9_MissingItemNoOp ==
    [][(lastCall'.n = lastCall.n + 1 /\ ~lastCall'.found) =>
           /\ viewport' = viewport
           /\ anims' = anims
           /\ lastFrame' = lastFrame
           /\ selectedItemId' = selectedItemId]_vars

\* an unknown id has been named while an animation was in flight, by a
\* focus event and by a direct call
C9_Witness ==
    /\ lastCall.n = 2
    /\ ~lastCall.found
    /\ lastCall.id = 9
    /\ lastCall.framesBefore # {}
    /\ anims = lastCall.framesBefore

\* C10 (P7): the viewport a completed centerOnItem leaves depends only on
\* the item, finalZoom and the container size: it is the final target.
C10_FinalViewportFixed ==
    (FrameWritten /\ lastFrame.done) =>
        LET a == lastFrame.a
            c == ItemCenter(a.item)
        IN viewport = [x |-> RSub(R(400, 2), RMul(c[1], a.finalZoom)),
                       y |-> RSub(R(200, 2), RMul(c[2], a.finalZoom)),
                       zoom |-> a.finalZoom]


\* C11: whatever the frame schedule, the loop stops with the first frame
\* whose elapsed time is at least D, and that last frame writes exactly the
\* final target: zoom = finalZoom, target item centered.
C11_TimingIndependent ==
    FrameWritten =>
        LET a == lastFrame.a
        IN /\ lastFrame.done <=> lastFrame.elapsed >= a.duration
           /\ lastFrame.done =>
                 /\ viewport.zoom = a.finalZoom
                 /\ ScreenCenterWorld(viewport) = ItemCenter(a.item)

\* C12: most recent focus wins: once every animation loop has stopped, the
\* viewport is the one written by the loop of the latest call; and the
\* latest call's loop starts from the viewport as it was at that call.
C12_MostRecentWins ==
    /\ (anims = {} /\ FrameWritten) => lastFrame.anim = nextAnim - 1
    /\ \A a \in anims :
          (a.id = nextAnim - 1 /\ lastCall.found) => a.start = lastCall.before

\* C13: the sub-element highlight of a focus request is added only after
\* the animation's full duration has elapsed since the request was handled,
\* never while that request's animation is running.
C13_HighlightAfterAnimation ==
    \A h \in highlighted :
        /\ h.at >= h.duration
        /\ ~(\E a \in anims : a.id = h.anim)

FocusAnswered == last.endpoint = "focus" /\ last.status # 0

\* C14: POST /api/focus answers 400 exactly when neither itemId nor
\* objectId carries an identifier; a rejected request broadcasts nothing;
\* every other request is answered 200 with success = true.
C14_FocusRejectIff ==
    FocusAnswered =>
        /\ last.status = 400 <=> (last.body.itemId = 0 /\ last.body.objectId = 0)
        /\ last.status = 400 => last.events = <<>>
        /\ last.status # 400 => (last.status = 200 /\ last.ack.success)

\* the step is an accepted POST /api/focus
FocusAccepted == last' # last /\ last'.endpoint = "focus" /\ last'.status = 200

\* C15: an accepted POST /api/focus writes exactly one event to every
\* connected viewer; the event has objectId and itemId, both the normalized
\* identifier, and subElement, focusOptions and a timestamp; the response
\* echoes itemId, subElement and focusOptions.
C15_OneNormalizedEvent ==
    [][FocusAccepted =>
         LET b == last'.body
             id == IF b.itemId # 0 THEN b.itemId ELSE b.objectId
         IN /\ Len(last'.events) = 1
            /\ \A c \in DOMAIN sseClients :
                  sseClients'[c] = Append(sseClients[c], last'.events[1])
            /\ {"objectId", "itemId", "subElement", "focusOptions", "timestamp"}
                  \subseteq DOMAIN last'.events[1]
            /\ last'.events[1].objectId = id
            /\ last'.events[1].itemId = id
            /\ last'.events[1].subElement = b.subElement
            /\ {"itemId", "subElement", "focusOptions"} \subseteq DOMAIN last'.ack
            /\ last'.ack.itemId = id
            /\ last'.ack.subElement = b.subElement
            /\ last'.ack.focusOptions = last'.events[1].focusOptions]_vars

\* C16: the broadcast focusOptions are the defaults overridden field by
\* field by the caller's; with a subElement the default zoom is higher and
\* the default duration not longer than without; highlight defaults to
\* true exactly with a subElement.
C16_MergedOptions ==
    (FocusAnswered /\ last.status = 200) =>
        /\ "focusOptions" \in DOMAIN last.events[1]
        /\ LET o == last.events[1].focusOptions
               b == last.body
               without == defaultOptions(NoSub)
               with == defaultOptions("todo-2")
               d == IF b.subElement = NoSub THEN without ELSE with
           IN /\ DOMAIN o = {"zoom", "highlight", "duration", "scrollIntoView"}
                               \cup DOMAIN b.focusOptions
              /\ \A k \in DOMAIN o :
                    o[k] = IF k \in DOMAIN b.focusOptions
                           THEN b.focusOptions[k] ELSE d[k]
              /\ RLt(without["zoom"], with["zoom"])
              /\ with["duration"] <= without["duration"]
              /\ d["highlight"] = (b.subElement # NoSub)

\* the step dispatches the oldest event of client c, a focus event
FocusDispatched(c) ==
    /\ sseClients[c] # <<>>
    /\ c \in DOMAIN sseClients'
    /\ sseClients'[c] = Tail(sseClients[c])
    /\ Head(sseClients[c]).event \in {"focus", "focus-item"}

\* C17: the focus event is named focus-item and every connected viewer,
\* BoardApp and MeetMainStage, runs its focus handler for it.
C17_FocusItemHandled ==
    [][\A c \in DOMAIN sseClients :
          FocusDispatched(c) =>
             /\ Head(sseClients[c]).event = "focus-item"
             /\ c = "BoardApp" => lastCall'.n = lastCall.n + 1
             /\ c = "MeetMainStage" =>
                   meet'.timer = Head(sseClients[c]).objectId]_vars

Delivered == \A c \in DOMAIN sseClients : sseClients[c] = <<>>
ListOf(list) == {list[i] : i \in 1..Len(list)}

\* C18: every successful creation, on any endpoint, persists the item and
\* broadcasts it, so that once the events are dispatched every connected
\* viewer has the item in its list at the server-assigned coordinates.
C18_CreatedReachesViewers ==
    Delivered =>
        \A k \in 1..Len(history) :
            \E it \in ListOf(store) :
                /\ it.id = history[k].id
                /\ it \in ListOf(items)
                /\ it \in ListOf(meet.items)

\* C19: a creation whose save fails is still answered 201 with the created
\* item, and the new-item event is still broadcast.
C19_SaveFailureNonFatal ==
    (last.endpoint \notin {"none", "focus", "task-zone"}
       /\ last.status # 400 /\ ~last.saved) =>
        /\ last.status = 201
        /\ last.item # NoItem
        /\ last.events = <<[event |-> "new-item", item |-> last.item]>>

\* C20: DELETE /api/task-zone removes exactly the agent / todo / lab-result
\* items whose (x, y) is inside the zone, keeps every other item unchanged
\* and in order, reports the number removed, and leaves nothing a second
\* call would remove.
C20_TaskZoneCleared ==
    (last.endpoint = "task-zone" /\ last.status = 200) =>
        LET removable(item) ==
                /\ item.type \in {"agent", "todo", "lab-result"}
                /\ 4200 <= item.x /\ item.x < 4200 + 2000
                /\ 0 <= item.y /\ item.y < 0 + 2100
            keep(item) == ~removable(item)
        IN /\ store = SelectSeq(last.existing, keep)
           /\ last.removedCount = Len(last.existing) - Len(store)
           /\ last.removedCount =
                 Cardinality({i \in 1..Len(last.existing) :
                                 removable(last.existing[i])})
           /\ SelectSeq(store, keep) = store

\* a call has removed an item and kept a created one: a non-API item inside
\* the zone or an API item outside it
C20_Witness ==
    /\ last.endpoint = "task-zone" /\ last.status = 200
    /\ last.removedCount >= 1
    /\ \E i \in 1..Len(store) :
          /\ store[i].id >= 11
          /\ InTaskZone(store[i]) \/ IsApiItem(store[i])

\* C25: in every reachable state no two stored items have the same id,
\* whatever creations, PUT updates and deletions were served
C25_IdsUnique ==
    \A i, j \in 1..Len(store) : i # j => store[i].id # store[j].id

\* C26: no request changes the type of a stored item: a step that keeps
\* the length of the collection (a PUT, or a request that stored nothing)
\* keeps the type of the item at every position
C26_TypeImmutable ==
    [][Len(store') = Len(store)
         => \A i \in 1..Len(store) : store'[i].type = store[i].type]_vars

\* a free-form allocation was answered: a component was created on the
\* file server
Allocated ==
    last.endpoint = "components" /\ last.status = 201 /\ backend = "file"

\* the candidate as requested: the supplied coordinates with the footprint
Requested ==
    [last.item EXCEPT !.x = last.body["x"], !.y = last.body["y"]]

\* rectangle a certainly shares interior points with the stored item e; an
\* item stored with height 'auto' has an unknown positive height, so it is
\* certainly hit when its top edge starts inside a
Overlaps(a, e) ==
    IF Numeric(e) THEN RectsOverlap(a, e)
    ELSE /\ a.x < e.x + e.width
         /\ e.x < a.x + a.width
         /\ a.y <= e.y
         /\ e.y < a.y + a.height

\* C28: a candidate that collides at its requested position is moved
\* directly below the lowest existing bottom edge plus the padding, and
\* whenever that lowest bottom plus padding is at most 8000 the returned
\* rectangle overlaps no existing item (touching edges do not overlap)
C28_FreeFormNoOverlap ==
    (Allocated /\ maxBottom(last.existing) + fnPadding <= tooFarDown) =>
        /\ (BothDefined(last.body)
              /\ \E i \in 1..Len(last.existing) :
                    checkCollision(Requested, last.existing[i]))
            => /\ last.item.x = last.body["x"]
               /\ last.item.y = maxBottom(last.existing) + fnPadding
        /\ \A i \in 1..Len(last.existing) :
              ~Overlaps(last.item, last.existing[i])

\* the free-form allocation's position below the lowest bottom is too far
\* down
TooFarDown == maxBottom(last.existing) + fnPadding > tooFarDown

\* colliding rounds of the answered allocation
CollidingRounds ==
    IF last.run.free THEN last.run.rounds - 1 ELSE last.run.rounds

\* C29 as stated: a position is returned after at most 50 collision-check
\* rounds, a re-seed to a random position happens only once the retry
\* ceiling has been exceeded, and after giving up the last computed
\* position is returned
C29_ReseedAfterCeiling ==
    Allocated =>
        /\ last.run.rounds <= maxAttempts
        /\ last.run.reseeds > 0 => last.run.first > maxAttempts

\* C29 amended: a position is returned after at most 50 collision-check
\* rounds; every colliding round re-seeds to a random position exactly when
\* the position below the lowest bottom plus padding is beyond 8000, never
\* because of the round count; the return inside the loop is collision
\* free, and after the 50th colliding round the last computed position is
\* returned unchecked
C29_BoundedBestEffort ==
    Allocated =>
        /\ last.run.rounds \in 1..maxAttempts
        /\ last.run.reseeds = IF TooFarDown THEN CollidingRounds ELSE 0
        /\ last.run.free =>
              ~Collides(last.item, last.existing, <<last.item.x, last.item.y>>)
        /\ ~last.run.free =>
              /\ last.run.rounds = maxAttempts
              /\ IF TooFarDown
                 THEN <<last.item.x, last.item.y>> \in RandomXs \X RandomYs
                 ELSE last.item.y = maxBottom(last.existing) + fnPadding

\* an allocation gave up after 50 rounds that all re-seeded, and stored a
\* position that still collides
C29_Witness ==
    /\ Allocated
    /\ ~last.run.free
    /\ last.run.reseeds = maxAttempts
    /\ Collides(last.item, last.existing, <<last.item.x, last.item.y>>)

\* requests p and q raced: both loaded before either saved
Raced(p, q) == p.loaded < q.saved /\ q.loaded < p.saved

\* q's save is the latest write to the store
LatestSave(q) ==
    /\ q.written
    /\ \A r \in pending : r.written => r.saved <= q.saved

----------------------------------------------------------------------------
(* Event streams and viewers *)

\* position of a created item in the order the creations were handled
CreatedAt(id) ==
    IF \E k \in 1..Len(history) : history[k].id = id
    THEN CHOOSE k \in 1..Len(history) : history[k].id = id
    ELSE 0

\* the created items of a viewer's list stand in the order of their creation
InCreationOrder(list) ==
    \A i, j \in 1..Len(list) :
        (i < j /\ CreatedAt(list[i].id) # 0 /\ CreatedAt(list[j].id) # 0)
            => CreatedAt(list[i].id) < CreatedAt(list[j].id)

\* C21: on the stream of a connected viewer the events are dispatched in
\* the order they were broadcast: a broadcast appends its events to every
\* stream, a dispatch takes the oldest one, and the items a viewer added
\* stand in its list in the order the server created them.
C21_BroadcastOrder ==
    /\ [](InCreationOrder(items) /\ InCreationOrder(meet.items))
    /\ [][\A c \in DOMAIN sseClients \cap DOMAIN sseClients' :
            \/ sseClients'[c] = sseClients[c]
            \/ sseClients'[c] = sseClients[c] \o last'.events
            \/ sseClients[c] # <<>> /\ sseClients'[c] = Tail(sseClients[c])]_vars

\* BoardApp was sent two new-item events and added both items, while the
\* same two events are still in flight on MeetMainStage's stream
C21_Witness ==
    /\ Len(history) = 2
    /\ \A k \in 1..2 : \E i \in 1..Len(items) : items[i].id = history[k].id
    /\ "MeetMainStage" \in DOMAIN sseClients
    /\ Len(sseClients["MeetMainStage"]) = 2
    /\ \A n \in 1..2 : sseClients["MeetMainStage"][n].event = "new-item"

\* the step dispatches to viewer c a focus event it listens to, whose
\* target is not in c's list
UnknownFocus(c) ==
    /\ FocusDispatched(c)
    /\ LET e == Head(sseClients[c])
       IN IF c = "BoardApp"
          THEN e.event = "focus" /\ ~Knows(items, e.objectId)
          ELSE e.event = "focus-item" /\ ~Knows(meet.items, e.objectId)

\* C22: a focus event whose target is not in the viewer's list when it is
\* handled is dropped for good: the viewer selects nothing, queues nothing,
\* and no animation runs for it when the item arrives later.
C22_UnknownFocusDropped ==
    /\ [][\A c \in DOMAIN sseClients :
            UnknownFocus(c) =>
                /\ UNCHANGED <<selectedItemId, anims, timers, viewport>>
                /\ meet'.selectedItemId = meet.selectedItemId
                /\ meet'.timer = meet.timer]_vars
    /\ []~meet.late

\* the step dispatches the oldest event of client c
Dispatched(c) ==
    /\ sseClients[c] # <<>>
    /\ c \in DOMAIN sseClients'
    /\ sseClients'[c] = Tail(sseClients[c])

\* the list of viewer c
ListIn(c, board, stage) == IF c = "BoardApp" THEN board ELSE stage.items

\* C23: every viewer listens on the item-created, item-updated,
\* item-deleted and focus channels: a dispatched new-item event adds the
\* item to its list, an update-item event merges the updates into the item
\* with that id, a delete-item event removes that item, and a focus event
\* on its focus channel runs its focus handler.
C23_ViewersSubscribe ==
    [][\A c \in DOMAIN sseClients :
          (Dispatched(c) /\ Parses(Head(sseClients[c]))) =>
             LET e == Head(sseClients[c])
                 list == ListIn(c, items, meet)
                 after == ListIn(c, items', meet')
             IN /\ e.event = "new-item" => after = AddItem(list, e.item)
                /\ e.event = "update-item" =>
                      after = [i \in 1..Len(list) |->
                                  IF list[i].id = e.id
                                  THEN Merge(list[i], e.updates) ELSE list[i]]
                /\ e.event = "delete-item" =>
                      after = SelectSeq(list, LAMBDA item : item.id # e.id)
                /\ (c = "BoardApp" /\ e.event = "focus") =>
                      lastCall'.n = lastCall.n + 1
                /\ (c = "MeetMainStage" /\ e.event = "focus-item") =>
                      meet'.timer = e.objectId]_vars

\* the step dispatches to viewer c an event whose handling fails: its
\* data does not parse, its target is not in c's list, or its sub-element
\* is not in the rendered items
FailingEvent(c) ==
    /\ Dispatched(c)
    /\ LET e == Head(sseClients[c])
       IN \/ ~Parses(e)
          \/ UnknownFocus(c)
          \/ /\ c = "BoardApp" /\ e.event = "focus"
             /\ e.subElement # NoSub /\ e.subElement \notin DomFocusIds

\* C27: a failure while handling one event stays inside the listener: the
\* step leaves the viewer's list and viewport as they were, and the
\* viewer's stream stays open for the events that follow, none of the
\* state its SSE effect depends on having changed.
C27_FailureContained ==
    [][\A c \in DOMAIN sseClients :
          FailingEvent(c) =>
             /\ UNCHANGED <<items, viewport>>
             /\ meet'.items = meet.items
             /\ meet'.resub = meet.resub]_vars

\* the last request was an accepted focus request for an item created
\* before it, and no event is left undispatched on any viewer's stream
FocusedAfterCreate(id) ==
    /\ last.endpoint = "focus" /\ last.status = 200
    /\ last.body.objectId = id
    /\ CreatedAt(id) # 0
    /\ \A c \in DOMAIN sseClients : sseClients[c] = <<>>

\* C24: when an item is created and a focus request for its id follows at
\* once, every viewer connected since before the creation selects the item
\* and starts the animation that centers on it: BoardApp's handler finds
\* the item, MeetMainStage has the item and its centering timer is set.
C24_CreateThenFocus ==
    FocusedAfterCreate(FirstId) =>
        /\ selectedItemId = FirstId
        /\ lastCall.kind = "focus" /\ lastCall.id = FirstId /\ lastCall.found
        /\ meet.selectedItemId = FirstId
        /\ Knows(meet.items, FirstId)
        /\ meet.timer = FirstId

----------------------------------------------------------------------------
(* Zone allocator on any store content *)

\* the last request was an auto-positioned creation answered 201
AutoAnswered == last.status = 201 /\ last.by \in {"grid", "overflow"}

\* cell (row, col) is occupied in the collection the last request loaded
Occupied(row, col) ==
    \E i \in 1..Len(last.existing) :
        LET e == last.existing[i]
        IN /\ e.type \in {"agent", "todo", "lab-result"}
           /\ e.x >= 4200 /\ e.x < 4200 + 2000
           /\ e.y >= 0 /\ e.y < 0 + 2100
           /\ (e.x - 4200) \div 560 = col
           /\ (e.y - 0 - 60) \div 490 = row

Cells == (0..3) \X (0..2)

\* cell c comes before cell d in row-major order, or is d
RowMajor(c, d) == c[1] < d[1] \/ (c[1] = d[1] /\ c[2] <= d[2])

\* C31: whatever the store holds, an auto-positioned creation that finds a
\* free cell is placed at the first cell in row-major order that no
\* agent / todo / lab-result item inside the zone maps to, and the
\* position it is given maps back to that cell.
C31_FirstFreeCellAnyStore ==
    (AutoAnswered /\ \E c \in Cells : ~Occupied(c[1], c[2])) =>
        \E c \in Cells :
            /\ ~Occupied(c[1], c[2])
            /\ \A d \in Cells : ~Occupied(d[1], d[2]) => RowMajor(c, d)
            /\ last.item.x = 4200 + c[2] * 560 + 60
            /\ last.item.y = 0 + c[1] * 490 + 60
            /\ (last.item.x - 4200) \div 560 = c[2]
            /\ (last.item.y - 0 - 60) \div 490 = c[1]

\* the item of cell (0, 0) was deleted from a grid whose last cell was
\* free as well, and the next auto-positioned creation reused cell (0, 0)
C31_Witness ==
    /\ AutoAnswered
    /\ \E i \in 1..Len(last.existing) : last.existing[i].id = 2 * FirstId + 1
    /\ ~(\E i \in 1..Len(last.existing) : last.existing[i].id = 2 * FirstId)
    /\ ~Occupied(3, 2)
    /\ <<last.item.x, last.item.y>> = <<4260, 60>>

\* the agent / todo / lab-result items of the loaded collection that lie
\* inside the zone, and nothing else
GridManaged ==
    SelectSeq(last.existing,
              LAMBDA e : /\ e.type \in {"agent", "todo", "lab-result"}
                         /\ e.x >= 4200 /\ e.x < 4200 + 2000
                         /\ e.y >= 0 /\ e.y < 0 + 2100)

\* candidates of different type and footprint
Candidates ==
    {[type |-> "lab-result", width |-> 400, height |-> 280],
     [type |-> "agent", width |-> 520, height |-> 1200],
     [type |-> "ehr", width |-> 10, height |-> 10]}

\* C32: the zone allocator's answer depends only on the agent / todo /
\* lab-result items inside the zone: called for any candidate on the loaded
\* collection and on that collection without its other items it returns
\* the position the creation was given, and the call changes nothing: the
\* stored collection is the loaded one with the new item appended.
C32_AllocatorPure ==
    AutoAnswered =>
        /\ \A c1, c2 \in Candidates :
              /\ findTaskZonePosition(c1, last.existing)
                    = findTaskZonePosition(c2, GridManaged)
              /\ findTaskZonePosition(c1, last.existing)
                    = [x |-> last.item.x, y |-> last.item.y]
        /\ last.saved => store = Append(last.existing, last.item)

\* a todo was auto-positioned into cell (0, 0) while the EHR item, moved
\* into the zone, and an item outside the grid rows lay on that cell
C32_Witness ==
    /\ AutoAnswered
    /\ last.endpoint = "todos"
    /\ \E i \in 1..Len(last.existing) :
          /\ last.existing[i].type = "ehr"
          /\ <<last.existing[i].x, last.existing[i].y>> = <<4260, 60>>
    /\ Len(GridManaged) > 0
    /\ <<last.item.x, last.item.y>> = <<4260, 60>>

\* request r was an auto-positioned creation from the overflow branch,
\* answered 201 and persisted
OverflowStored(r) == r.status = 201 /\ r.by = "overflow" /\ r.saved

\* C33: once the grid is full, an overflow creation that directly follows
\* a persisted overflow creation is placed below it, so the positions of
\* successive overflow items differ.
C33_OverflowStack ==
    [][(OverflowStored(last) /\ history' # history /\ OverflowStored(last'))
          => /\ last'.item.y > last.item.y
             /\ <<last'.item.x, last'.item.y>> # <<last.item.x, last.item.y>>]_vars

\* the last request was DELETE /api/task-zone, answered 200
ZoneCleared == last.endpoint = "task-zone" /\ last.status = 200

\* after DELETE /api/task-zone no auto-positioned item is left in the store
NoAutoItemLeft ==
    ZoneCleared =>
        ~(\E i \in 1..Len(store) :
             /\ store[i].id \in AutoIds
             /\ store[i].type \in {"agent", "todo", "lab-result"})

\* the auto-positioned creation that follows DELETE /api/task-zone is
\* given the first cell
FirstCellAfterClear ==
    [][(ZoneCleared /\ history' # history /\ last'.status = 201
          /\ last'.by \in {"grid", "overflow"})
          => <<last'.item.x, last'.item.y>> = <<4260, 60>>]_vars

\* C39: DELETE /api/task-zone resets the auto-positioned layout: no
\* agent / todo / lab-result item the auto-positioner placed, on the grid
\* or on the overflow stack, remains in the store, and the next
\* auto-positioned creation receives the first cell (4260, 60).
C39_TaskZoneReset == []NoAutoItemLeft /\ FirstCellAfterClear

\* request r was a creation the grid scan positioned, answered 201
GridAnswered(r) == r.status = 201 /\ r.by = "grid"

\* C40: on the Redis server two consecutive auto-positioned creations that
\* were both answered 201 from the grid never receive the same position,
\* whether or not saveBoardItems could reach Redis.
C40_RedisAllocationsDiffer ==
    [][(backend = "redis" /\ GridAnswered(last) /\ history' # history
          /\ GridAnswered(last'))
          => <<last'.item.x, last'.item.y>> # <<last.item.x, last.item.y>>]_vars

----------------------------------------------------------------------------
(* In-memory server *)

\* C38: in the in-memory server every item created through the API is in
\* the collection GET /api/board-items returns, whenever the request is
\* made.
C38_CreatedStays ==
    (last.endpoint = "get" /\ last.status = 200) =>
        \A k \in 1..Len(history) :
            \E i \in 1..Len(last.existing) : last.existing[i].id = history[k].id

----------------------------------------------------------------------------
(* Animation loops *)

\* the loop with identity n has a frame requested
Running(n) == \E a \in anims : a.id = n

----------------------------------------------------------------------------
(* Viewer subscriptions *)

\* the events of s are the first events of t, in the same order
StartsWith(t, s) == Len(s) <= Len(t) /\ SubSeq(t, 1, Len(s)) = s

\* C35: a viewer's subscription is continuous: no step in which a viewer
\* handles an event, and no other step, closes the viewer's EventSource, and
\* every event written to its stream stays there until it is dispatched.
C35_SubscriptionContinuous ==
    [][\A c \in DOMAIN sseClients :
         /\ c \in DOMAIN sseClients'
         /\ \/ StartsWith(sseClients'[c], sseClients[c])
            \/ /\ sseClients[c] # <<>>
               /\ StartsWith(sseClients'[c], Tail(sseClients[c]))]_vars

\* no two items of the list share an id
UniqueIds(list) ==
    \A i, j \in 1..Len(list) : list[i].id = list[j].id => i = j

\* viewer c dispatches a new-item event that carries an item
NewItemDispatched(c) ==
    /\ c \in DOMAIN sseClients
    /\ Dispatched(c)
    /\ Parses(Head(sseClients[c]))
    /\ Head(sseClients[c]).event = "new-item"

\* C36: handling new-item is idempotent and keeps the ids of a viewer's list
\* unique: an event whose item id is in the list leaves the list unchanged,
\* any other appends its item after the items already there, and the lists
\* of both viewers hold at most one item per id.
C36_NewItemIdempotent ==
    /\ [](UniqueIds(items) /\ UniqueIds(meet.items))
    /\ [][\A c \in Viewers : NewItemDispatched(c) =>
            LET item == Head(sseClients[c]).item
                old == ListIn(c, items, meet)
                new == ListIn(c, items', meet')
            IN IF Knows(old, item.id) THEN new = old
               ELSE new = Append(old, item)]_vars

\* MeetMainStage has dispatched a new-item event for an id in its list, and
\* BoardApp shows the arrived item
C36_Witness ==
    /\ meet.dup
    /\ Knows(items, FirstId)
    /\ Len(items) = 3

\* the selection of a viewer is empty or names an item of its list
Selects(list, id) == id = 0 \/ Knows(list, id)

\* C37: in BoardApp and in MeetMainStage the selected item id is always
\* null or the id of an item of the viewer's own list.
C37_SelectionInList ==
    /\ Selects(items, selectedItemId)
    /\ Selects(meet.items, meet.selectedItemId)

====
